---------------------------- MODULE Spec2Model ----------------------------
(***************************************************************************)
(* A model of the EuropeOrthoViewer capability pipeline: URL               *)
(* normalisation, the WMS / WMTS / ArcGIS REST capability parsers and      *)
(* their default selection rules, and the layer listing operations.        *)
(*                                                                         *)
(* Python strings are modelled as sequences of one-character strings, so   *)
(* that lower(), split(), replace(), percent-encoding and string ordering  *)
(* are computed character by character as the library computes them.       *)
(* Python's None is the record None; an optional string is Some(s).        *)
(***************************************************************************)
EXTENDS Integers, Sequences, FiniteSets, TLC

VARIABLES
    \* ---- URL normaliser (wms_utils / wmts_utils) ----
    url,            \* the URL handed to the normaliser
    url_op,         \* which URL operation has been applied to url
    svc_base,       \* _normalize_service_base(url)
    svc_base2,      \* _normalize_service_base(svc_base)
    caps_url,       \* _build_caps_url(url [, version])
    caps_version,   \* the version _build_caps_url was called with
    \* ---- WMS capability parser (wms_utils) ----
    wms_doc,        \* the capability document handed to the parser
    wms_layers,     \* _parse_layers_from_caps(wms_doc)
    \* ---- WMTS defaults (wmts_utils) ----
    sets,           \* a layer's linked tile matrix sets: [id, crs]
    default_matrix_set, \* _prefer_matrix_set(sets)
    fmts,           \* a layer's Format list
    default_format, \* _prefer_format(fmts)
    \* ---- ArcGIS export format (rest_utils) ----
    fmt_tokens,     \* the comma-separated pieces fmt_str is written from
    fmt_str,        \* the service's supportedImageFormatTypes
    requested_fmt,  \* the format asked for (None: no request)
    chosen_fmt,     \* _prefer_arcgis_format(requested_fmt, formats)
    \* ---- Layer listing (main.py, load_wms_layers, load_wmts_layers,
    \*      load_rest_layers) ----
    url_text,       \* the URL the running or last listing action read
    service_type,   \* the service type it resolved
    list_pc,        \* "idle", or the load function the listing action is in
    ver_idx,        \* load_wms_layers: index of the version to try next
    tree,           \* the items of the dialog's tree widget
    errors,         \* the errors list of the running load function
    fetches,        \* the capability fetches the listing action has issued
    reports,        \* the error dialogs the listing action has shown
    attempts,       \* the reply each fetch of the listing action received
    listings,       \* the number of listing actions started
    \* ---- ArcGIS layer resolution (rest_utils._resolve_layer) ----
    svc_layers,     \* the layers of the service info: [id, name]
    layer_identifier, \* the identifier _resolve_layer is asked for
    resolved,       \* its result: the (id, name) returned or the error raised
    \* ---- Service type resolution (main.py) ----
    type_url,       \* the URL text the type is resolved for
    type_selector,  \* the dialog's protocol selection (None: it offers none)
    type_entry,     \* the type of the current catalog entry (None: no entry)
    detected,       \* detect_service_type(type_url)
    current_type,   \* _current_service_type(type_url)
    \* ---- Add selected (main.py, add_wms_layer, add_wmts_layer, add_rest_layer) ----
    add_pc,         \* "idle", "loop" while _on_add_selected runs its loop, "done" after it
    add_type,       \* the service type _on_add_selected resolved
    add_crs,        \* the CRS it read from the dialog
    add_fmt,        \* the image format it read from the dialog
    add_entries,    \* its entries: (name, effective_url, payload) of each checked item
    add_idx,        \* the number of entries its loop has taken
    add_errors,     \* its errors list
    add_log,        \* what it and its builders did: calls, fetches, probes, adds, reports
    add_replies,    \* the reply the fetch of each builder call received
    project,        \* the layers of the QGIS project
    \* ---- Blocking fetch (net_utils._blocking_get, http_get_bytes) ----
    get_pc,         \* "idle", "wait" inside loop.exec_(), "done" after the return
    get_url,        \* the URL http_get_bytes was called with
    get_server,     \* what the server answers: redirects before the final answer
    get_requests,   \* the number of requests issued (the first and one per hop)
    get_redirects,  \* the local redirects of _blocking_get
    get_reply,      \* the current reply: its request, finished or not, quits the loop or not
    timer_active,   \* timer.isActive()
    get_result,     \* what http_get_bytes returned or raised
    \* ---- The dialog between its actions (ui.py) ----
    catalog_entry,  \* the catalog entry of the selected country and region: [type, url]
    url_edit,       \* urlEdit.text()
    checked         \* the indices of the tree items whose check box is ticked

urlVars == <<url, url_op, svc_base, svc_base2, caps_url, caps_version>>
parseVars == <<wms_doc, wms_layers>>
matrixVars == <<sets, default_matrix_set>>
formatVars == <<fmts, default_format>>
arcgisVars == <<fmt_tokens, fmt_str, requested_fmt, chosen_fmt>>

listVars ==
    <<url_text, service_type, list_pc, ver_idx, tree, errors, fetches, reports,
      attempts, listings>>

resolveVars == <<svc_layers, layer_identifier, resolved>>

typeVars == <<type_url, type_selector, type_entry, detected, current_type>>

addVars == <<add_pc, add_type, add_crs, add_fmt, add_entries, add_idx, add_errors, add_log,
      add_replies, project>>

getVars ==
    <<get_pc, get_url, get_server, get_requests, get_redirects, get_reply,
      timer_active, get_result>>

dialogVars == <<catalog_entry, url_edit, checked>>

vars ==
    <<urlVars, parseVars, matrixVars, formatVars, arcgisVars, listVars, resolveVars, typeVars, addVars, getVars, dialogVars>>

\* The variables other than one component's.
notUrlVars ==
    <<parseVars, matrixVars, formatVars, arcgisVars, listVars, resolveVars, typeVars, addVars, getVars, dialogVars>>
notParseVars ==
    <<urlVars, matrixVars, formatVars, arcgisVars, listVars, resolveVars, typeVars, addVars, getVars, dialogVars>>
notMatrixVars ==
    <<urlVars, parseVars, formatVars, arcgisVars, listVars, resolveVars, typeVars, addVars, getVars, dialogVars>>
notFormatVars ==
    <<urlVars, parseVars, matrixVars, arcgisVars, listVars, resolveVars, typeVars, addVars, getVars, dialogVars>>
notListVars ==
    <<urlVars, parseVars, matrixVars, formatVars, arcgisVars, resolveVars, typeVars, addVars, getVars, dialogVars>>
notArcgisVars ==
    <<urlVars, parseVars, matrixVars, formatVars, listVars, resolveVars, typeVars, addVars, getVars, dialogVars>>
notResolveVars ==
    <<urlVars, parseVars, matrixVars, formatVars, arcgisVars, listVars, typeVars, addVars, getVars, dialogVars>>
notTypeVars ==
    <<urlVars, parseVars, matrixVars, formatVars, arcgisVars, listVars, resolveVars, addVars, getVars, dialogVars>>
notAddVars ==
    <<urlVars, parseVars, matrixVars, formatVars, arcgisVars, listVars, resolveVars, typeVars, getVars, dialogVars>>
notGetVars ==
    <<urlVars, parseVars, matrixVars, formatVars, arcgisVars, listVars, resolveVars, typeVars, addVars, dialogVars>>
notDialogVars ==
    <<urlVars, parseVars, matrixVars, formatVars, arcgisVars, listVars, resolveVars, typeVars, addVars, getVars>>

-----------------------------------------------------------------------------
(* Bounds of the model *)

\* Largest number of '&'-separated pieces in the query string of an input URL.
MaxParams == 2

-----------------------------------------------------------------------------
(* Python values *)

None == [some |-> FALSE, val |-> <<>>]
Some(s) == [some |-> TRUE, val |-> s]

\* The printable ASCII characters in code-point order, U+0020 .. U+007E.
Ascii ==
    <<" ", "!", "DQUOTE", "#", "$", "%", "&", "'", "(", ")", "*", "+", ",", "-", ".", "/",
      "0", "1", "2", "3", "4", "5", "6", "7", "8", "9", ":", ";", "<", "=", ">", "?",
      "@", "A", "B", "C", "D", "E", "F", "G", "H", "I", "J", "K", "L", "M", "N", "O",
      "P", "Q", "R", "S", "T", "U", "V", "W", "X", "Y", "Z", "[", "BACKSLASH", "]", "^", "_",
      "BACKTICK", "a", "b", "c", "d", "e", "f", "g", "h", "i", "j", "k", "l", "m", "n", "o",
      "p", "q", "r", "s", "t", "u", "v", "w", "x", "y", "z", "{", "|", "}", "~">>

\* ord(c) for a printable ASCII character.
OrdTable ==
    [c \in {Ascii[i] : i \in 1..Len(Ascii)} |-> 31 + (CHOOSE i \in 1..Len(Ascii) : Ascii[i] = c)]
Ord(c) == OrdTable[c]
Chr(n) == Ascii[n - 31]

IsUpperChar(c) == Ord(c) >= 65 /\ Ord(c) <= 90
IsLowerChar(c) == Ord(c) >= 97 /\ Ord(c) <= 122
IsDigitChar(c) == Ord(c) >= 48 /\ Ord(c) <= 57
IsSpaceChar(c) == c = " "

LowerChar(c) == IF IsUpperChar(c) THEN Chr(Ord(c) + 32) ELSE c
UpperChar(c) == IF IsLowerChar(c) THEN Chr(Ord(c) - 32) ELSE c

\* str.lower() and str.upper()
Lower(s) == [i \in 1..Len(s) |-> LowerChar(s[i])]
Upper(s) == [i \in 1..Len(s) |-> UpperChar(s[i])]

\* s[i:] with i counted from 1, and s[:n]
From(s, i) == IF i > Len(s) THEN <<>> ELSE SubSeq(s, i, Len(s))
Take(s, n) == IF n >= Len(s) THEN s ELSE SubSeq(s, 1, n)

\* str.startswith(p)
StartsWith(s, p) == Len(p) <= Len(s) /\ SubSeq(s, 1, Len(p)) = p

\* str.endswith(p)
EndsWith(s, p) == Len(p) <= Len(s) /\ SubSeq(s, Len(s) - Len(p) + 1, Len(s)) = p

\* str.find(p) counted from 1; 0 when p does not occur in s.
Find(s, p) ==
    LET hits == {i \in 1..(Len(s) - Len(p) + 1) : SubSeq(s, i, i + Len(p) - 1) = p}
    IN  IF hits = {} THEN 0 ELSE CHOOSE i \in hits : \A j \in hits : i <= j

\* p in s
Contains(s, p) == Find(s, p) # 0

\* str.isdigit() (ASCII digits): false for the empty string.
IsDigit(s) == Len(s) > 0 /\ \A i \in 1..Len(s) : IsDigitChar(s[i])

\* str.strip()
RECURSIVE LStrip(_)
LStrip(s) == IF s # <<>> /\ IsSpaceChar(Head(s)) THEN LStrip(Tail(s)) ELSE s
RECURSIVE RStrip(_)
RStrip(s) ==
    IF s # <<>> /\ IsSpaceChar(s[Len(s)]) THEN RStrip(SubSeq(s, 1, Len(s) - 1)) ELSE s
Strip(s) == RStrip(LStrip(s))

\* str.replace(old, new): every non-overlapping occurrence, left to right.
RECURSIVE Replace(_, _, _)
Replace(s, old, new) ==
    IF s = <<>> THEN <<>>
    ELSE IF StartsWith(s, old) THEN new \o Replace(From(s, Len(old) + 1), old, new)
    ELSE <<Head(s)>> \o Replace(Tail(s), old, new)

\* str.split(sep): every occurrence of the separator splits; "" gives [""].
RECURSIVE Split(_, _)
Split(s, sep) ==
    LET i == Find(s, sep)
    IN  IF i = 0 THEN <<s>>
        ELSE <<Take(s, i - 1)>> \o Split(From(s, i + Len(sep)), sep)

\* str.split(sep, 1): at most one split, at the first occurrence.
Split1(s, sep) ==
    LET i == Find(s, sep)
    IN  IF i = 0 THEN <<s>> ELSE <<Take(s, i - 1), From(s, i + Len(sep))>>

\* str.split(): split on runs of whitespace, no empty fields.
RECURSIVE SplitWhitespace(_)
SplitWhitespace(s) ==
    LET t == LStrip(s)
        i == Find(t, <<" ">>)
    IN  IF t = <<>> THEN <<>>
        ELSE IF i = 0 THEN <<t>>
        ELSE <<Take(t, i - 1)>> \o SplitWhitespace(From(t, i))

\* sep.join(parts)
RECURSIVE Join(_, _)
Join(parts, sep) ==
    IF parts = <<>> THEN <<>>
    ELSE IF Len(parts) = 1 THEN parts[1]
    ELSE parts[1] \o sep \o Join(Tail(parts), sep)

\* a < b for Python strings: lexicographic by code point.
RECURSIVE StrLess(_, _)
StrLess(a, b) ==
    IF b = <<>> THEN FALSE
    ELSE IF a = <<>> THEN TRUE
    ELSE IF Ord(Head(a)) # Ord(Head(b)) THEN Ord(Head(a)) < Ord(Head(b))
    ELSE StrLess(Tail(a), Tail(b))

\* The elements of a sequence.
Range(s) == {s[i] : i \in 1..Len(s)}

\* All sequences over S of length at most n.
SeqUpTo(S, n) == UNION {[1..k -> S] : k \in 0..n}

-----------------------------------------------------------------------------
(* A component that a specification does not exercise stays idle. *)

UrlIdle ==
    /\ url = <<>>
    /\ url_op = "idle"
    /\ svc_base = None
    /\ svc_base2 = None
    /\ caps_url = None
    /\ caps_version = None

ParseIdle == wms_doc = None /\ wms_layers = None

MatrixIdle == sets = <<>> /\ default_matrix_set = None

FormatIdle == fmts = <<>> /\ default_format = None

ListIdle ==
    /\ url_text = <<>>
    /\ service_type = "none"
    /\ list_pc = "idle"
    /\ ver_idx = 0
    /\ tree = <<>>
    /\ errors = <<>>
    /\ fetches = <<>>
    /\ reports = <<>>
    /\ attempts = <<>>
    /\ listings = 0

ArcgisIdle ==
    /\ fmt_tokens = <<>>
    /\ fmt_str = <<>>
    /\ requested_fmt = None
    /\ chosen_fmt = None

ResolveIdle == svc_layers = <<>> /\ layer_identifier = <<>> /\ resolved = None

TypeIdle ==
    /\ type_url = <<>>
    /\ type_selector = None
    /\ type_entry = None
    /\ detected = "none"
    /\ current_type = "none"

AddIdle ==
    /\ add_pc = "idle"
    /\ add_type = "none"
    /\ add_crs = <<>>
    /\ add_fmt = <<>>
    /\ add_entries = <<>>
    /\ add_idx = 0
    /\ add_errors = <<>>
    /\ add_log = <<>>
    /\ add_replies = <<>>
    /\ project = <<>>

GetIdle ==
    /\ get_pc = "idle"
    /\ get_url = <<>>
    /\ get_server = [redirects |-> 0, final |-> "none"]
    /\ get_requests = 0
    /\ get_redirects = 0
    /\ get_reply = [n |-> 0, finished |-> FALSE, connected |-> FALSE]
    /\ timer_active = FALSE
    /\ get_result = [returned |-> FALSE, raised |-> FALSE, n |-> 0, kind |-> "none",
                     text |-> <<>>]

DialogIdle == catalog_entry = None /\ url_edit = <<>> /\ checked = {}

-----------------------------------------------------------------------------
(* urllib.parse, as wms_utils.py and wmts_utils.py use it *)

IsAlnumChar(c) == IsUpperChar(c) \/ IsLowerChar(c) \/ IsDigitChar(c)
IsSchemeChar(c) == IsAlnumChar(c) \/ c \in {"+", "-", "."}
IsHexChar(c) == IsDigitChar(c) \/ LowerChar(c) \in {"a", "b", "c", "d", "e", "f"}
HexVal(c) == IF IsDigitChar(c) THEN Ord(c) - 48 ELSE Ord(LowerChar(c)) - 87
HexDigits == <<"0","1","2","3","4","5","6","7","8","9","A","B","C","D","E","F">>

\* The index of the first character of s that is in the set cs; Len(s) + 1 when none.
FirstOf(s, cs) ==
    LET hits == {i \in 1..Len(s) : s[i] \in cs}
    IN  IF hits = {} THEN Len(s) + 1 ELSE CHOOSE i \in hits : \A j \in hits : i <= j

\* urlsplit(url): scheme, netloc, path, query, fragment.  The scheme is
\* lower-cased; the input URLs carry no control characters.
UrlSplit(u) ==
    LET i == Find(u, <<":">>)
        hasScheme == /\ i > 1
                     /\ IsUpperChar(u[1]) \/ IsLowerChar(u[1])
                     /\ \A j \in 1..(i - 1) : IsSchemeChar(u[j])
        rest1 == IF hasScheme THEN From(u, i + 1) ELSE u
        hasNetloc == StartsWith(rest1, <<"/","/">>)
        after == From(rest1, 3)
        delim == FirstOf(after, {"/", "?", "#"})
        rest2 == IF hasNetloc THEN From(after, delim) ELSE rest1
        f == Split1(rest2, <<"#">>)
        q == Split1(f[1], <<"?">>)
    IN  [scheme   |-> IF hasScheme THEN Lower(Take(u, i - 1)) ELSE <<>>,
         netloc   |-> IF hasNetloc THEN Take(after, delim - 1) ELSE <<>>,
         path     |-> q[1],
         query    |-> IF Len(q) = 2 THEN q[2] ELSE <<>>,
         fragment |-> IF Len(f) = 2 THEN f[2] ELSE <<>>]

\* urlunsplit(parts)
UrlUnsplit(p) ==
    LET u1 == IF p.netloc # <<>> \/ (p.scheme # <<>> /\ Take(p.path, 2) # <<"/","/">>)
              THEN <<"/","/">> \o p.netloc
                   \o (IF p.path # <<>> /\ Head(p.path) # "/" THEN <<"/">> ELSE <<>>)
                   \o p.path
              ELSE p.path
        u2 == IF p.scheme # <<>> THEN p.scheme \o <<":">> \o u1 ELSE u1
        u3 == IF p.query # <<>> THEN u2 \o <<"?">> \o p.query ELSE u2
    IN  IF p.fragment # <<>> THEN u3 \o <<"#">> \o p.fragment ELSE u3

\* unquote(s): every %XX escape becomes the character it encodes; a '%' that
\* is not followed by two hex digits stays.
RECURSIVE Unquote(_)
Unquote(s) ==
    IF s = <<>> THEN <<>>
    ELSE IF Head(s) = "%" /\ Len(s) >= 3 /\ IsHexChar(s[2]) /\ IsHexChar(s[3])
         THEN <<Chr(16 * HexVal(s[2]) + HexVal(s[3]))>> \o Unquote(From(s, 4))
    ELSE <<Head(s)>> \o Unquote(Tail(s))

\* quote_plus(s): letters, digits and "_.-~" stay, a space becomes '+', any
\* other character becomes %XX with upper-case hex digits.
QuoteChar(c) ==
    IF IsAlnumChar(c) \/ c \in {"_", ".", "-", "~"} THEN <<c>>
    ELSE IF c = " " THEN <<"+">>
    ELSE <<"%", HexDigits[(Ord(c) \div 16) + 1], HexDigits[(Ord(c) % 16) + 1]>>

RECURSIVE QuotePlus(_)
QuotePlus(s) == IF s = <<>> THEN <<>> ELSE QuoteChar(Head(s)) \o QuotePlus(Tail(s))

\* parse_qsl(qs, keep_blank_values=True): the list of (name, value) pairs.
\* An empty piece is skipped; a piece without '=' has the value "".
ParsePiece(piece) ==
    LET nv == Split1(piece, <<"=">>)
    IN  <<Unquote(Replace(nv[1], <<"+">>, <<" ">>)),
          IF Len(nv) = 2 THEN Unquote(Replace(nv[2], <<"+">>, <<" ">>)) ELSE <<>>>>

ParseQsl(qs) ==
    LET pieces == SelectSeq(Split(qs, <<"&">>), LAMBDA x : x # <<>>)
    IN  [i \in 1..Len(pieces) |-> ParsePiece(pieces[i])]

\* A Python dict is a sequence of <<key, value>> with distinct keys, in
\* insertion order.  d[k] = v keeps the place of a key already present.
DictSet(d, k, v) ==
    IF \E i \in 1..Len(d) : d[i][1] = k
    THEN [i \in 1..Len(d) |-> IF d[i][1] = k THEN <<k, v>> ELSE d[i]]
    ELSE Append(d, <<k, v>>)

\* d.update(pairs), and dict(pairs) as the update of the empty dict.
RECURSIVE DictUpdate(_, _)
DictUpdate(d, pairs) ==
    IF pairs = <<>> THEN d
    ELSE DictUpdate(DictSet(d, Head(pairs)[1], Head(pairs)[2]), Tail(pairs))

Dict(pairs) == DictUpdate(<<>>, pairs)

\* urlencode(q, doseq=True) of a dict with string values.
UrlEncode(q) ==
    Join([i \in 1..Len(q) |-> QuotePlus(q[i][1]) \o <<"=">> \o QuotePlus(q[i][2])], <<"&">>)

-----------------------------------------------------------------------------
(* URL Normalizer: wms_utils.py and wmts_utils.py *)

\* The keys _normalize_service_base drops, compared lower-cased.
CapsKeys == {<<"s","e","r","v","i","c","e">>, <<"r","e","q","u","e","s","t">>, <<"v","e","r","s","i","o","n">>}

IsCapsKey(k) == Lower(k) \in CapsKeys

\* A variant of wms_utils._normalize_service_base that joins the kept pairs
\* as name=value without percent-encoding them.
Wms_normalize_service_base_rawjoin(u) ==
    LET parts == UrlSplit(u)
        q == Dict(ParseQsl(parts.query))
        kept == SelectSeq(q, LAMBDA kv : ~IsCapsKey(kv[1]))
    IN  UrlUnsplit([parts EXCEPT !.query =
            Join([i \in 1..Len(kept) |-> kept[i][1] \o <<"=">> \o kept[i][2]], <<"&">>)])

\* wms_utils._normalize_service_base
Wms_normalize_service_base(u) ==
    LET parts == UrlSplit(u)
        q == Dict(ParseQsl(parts.query))
        kept == SelectSeq(q, LAMBDA kv : ~IsCapsKey(kv[1]))
    IN  UrlUnsplit([parts EXCEPT !.query = UrlEncode(kept)])

\* wmts_utils._normalize_service_base
Wmts_normalize_service_base(u) ==
    IF u = <<>> THEN <<>>
    ELSE LET parts == UrlSplit(u)
             q == Dict(ParseQsl(parts.query))
             kept == SelectSeq(q, LAMBDA kv : ~IsCapsKey(kv[1]))
         IN  UrlUnsplit([parts EXCEPT !.query = UrlEncode(kept)])

\* wms_utils._build_caps_url
Wms_build_caps_url(base_url, version) ==
    LET parts == UrlSplit(Strip(base_url))
        q == DictUpdate(Dict(ParseQsl(parts.query)),
                        << <<<<"S","E","R","V","I","C","E">>, <<"W","M","S">>>>,
                           <<<<"R","E","Q","U","E","S","T">>, <<"G","e","t","C","a","p","a","b","i","l","i","t","i","e","s">>>>,
                           <<<<"V","E","R","S","I","O","N">>, version>> >>)
    IN  UrlUnsplit([parts EXCEPT !.query = UrlEncode(q)])

\* wmts_utils._build_caps_url
Wmts_build_caps_url(base_url) ==
    LET parts == UrlSplit(Strip(base_url))
        q == DictUpdate(Dict(ParseQsl(parts.query)),
                        << <<<<"S","E","R","V","I","C","E">>, <<"W","M","T","S">>>>,
                           <<<<"R","E","Q","U","E","S","T">>, <<"G","e","t","C","a","p","a","b","i","l","i","t","i","e","s">>>> >>)
    IN  UrlUnsplit([parts EXCEPT !.query = UrlEncode(q)])

\* The two protocol versions load_wms_layers asks for, in its order.
V130 == <<"1",".","3",".","0">>
V111 == <<"1",".","1",".","1">>
WmsVersions == <<V130, V111>>

-----------------------------------------------------------------------------
(* The URLs the normaliser is run on: a service address, optionally
   followed by '?' and up to MaxParams '&'-separated query pieces. *)

UrlBases == {<<"h","t","t","p",":","/","/","h","/","o","w","s">>, <<"h","t","t","p","s",":","/","/","h",".","x","/","a","/","w","m","t","s","/">>}

QueryPieces ==
    {<<"s","e","r","v","i","c","e","=","W","M","S">>, <<"S","E","R","V","I","C","E","=","W","M","T","S">>, <<"R","e","q","u","e","s","t","=","G","e","t","M","a","p">>, <<"v","e","r","s","i","o","n","=","1",".","1",".","1">>,
     <<"m","a","p","=","a">>, <<"m","a","p","=","b">>, <<"k">>, <<"t","=","a","%","2","6","v","e","r","s","i","o","n","%","3","D","1","+","2">>, <<>>}

InputUrls ==
    {<<>>} \cup
    {b \o (IF ps = <<>> THEN <<>> ELSE <<"?">> \o Join(ps, <<"&">>)) :
        b \in UrlBases, ps \in SeqUpTo(QueryPieces, MaxParams)}

UrlInit ==
    /\ url \in InputUrls
    /\ url_op = "none"
    /\ svc_base = None
    /\ svc_base2 = None
    /\ caps_url = None
    /\ caps_version = None

\* wms_utils._normalize_service_base applied to url
NormalizeWms ==
    /\ url_op = "none"
    /\ url_op' = "wms_normalize"
    /\ svc_base' = Some(Wms_normalize_service_base(url))
    /\ UNCHANGED <<url, svc_base2, caps_url, caps_version, notUrlVars>>

\* wmts_utils._normalize_service_base applied to url
NormalizeWmts ==
    /\ url_op = "none"
    /\ url_op' = "wmts_normalize"
    /\ svc_base' = Some(Wmts_normalize_service_base(url))
    /\ UNCHANGED <<url, svc_base2, caps_url, caps_version, notUrlVars>>

\* The same module's _normalize_service_base applied to its own result
NormalizeAgain ==
    /\ url_op \in {"wms_normalize", "wmts_normalize"}
    /\ svc_base2 = None
    /\ svc_base2' = Some(IF url_op = "wms_normalize"
                         THEN Wms_normalize_service_base(svc_base.val)
                         ELSE Wmts_normalize_service_base(svc_base.val))
    /\ UNCHANGED <<url, url_op, svc_base, caps_url, caps_version, notUrlVars>>

\* wms_utils._build_caps_url(url, version)
BuildCapsWms ==
    /\ url_op = "none"
    /\ \E i \in 1..Len(WmsVersions) :
          /\ caps_url' = Some(Wms_build_caps_url(url, WmsVersions[i]))
          /\ caps_version' = Some(WmsVersions[i])
    /\ url_op' = "wms_caps"
    /\ UNCHANGED <<url, svc_base, svc_base2, notUrlVars>>

\* wmts_utils._build_caps_url(url)
BuildCapsWmts ==
    /\ url_op = "none"
    /\ caps_url' = Some(Wmts_build_caps_url(url))
    /\ url_op' = "wmts_caps"
    /\ UNCHANGED <<url, svc_base, svc_base2, caps_version, notUrlVars>>

UrlNext ==
    \/ NormalizeWms
    \/ NormalizeWmts
    \/ NormalizeAgain
    \/ BuildCapsWms
    \/ BuildCapsWmts

InitUrl == UrlInit /\ ParseIdle /\ MatrixIdle /\ FormatIdle /\ ArcgisIdle /\ ListIdle /\ ResolveIdle /\ TypeIdle /\ AddIdle /\ GetIdle /\ DialogIdle

SpecUrl == InitUrl /\ [][UrlNext]_vars

-----------------------------------------------------------------------------
(* Claims about the URL normaliser (specification SpecUrl) *)

\* The number of places of the pair list ps that hold the pair p.
ParamCount(ps, p) == Cardinality({i \in 1..Len(ps) : ps[i] = p})

\* Two pair lists hold the same (name, value) pairs, each as many times.
SameParams(a, b) == \A p \in Range(a) \cup Range(b) : ParamCount(a, p) = ParamCount(b, p)

\* The pairs of a parsed query whose key is none of service / request / version.
OtherParams(ps) == SelectSeq(ps, LAMBDA kv : ~IsCapsKey(kv[1]))

\* C7: service-base normalisation is idempotent, in the WMS and in the WMTS
\* module: normalising the normalised URL again returns it unchanged.
C7_NormalizeIdempotent == svc_base2.some => svc_base2.val = svc_base.val

\* C7 witness: a URL that normalisation changed, whose result still carries a
\* percent-encoded parameter, has been normalised a second time.
C7_Witness ==
    /\ svc_base2.some
    /\ svc_base.val # url
    /\ Contains(svc_base.val, <<"%","2","6">>)

\* C8 as stated: the service base has the scheme, host and path of the input,
\* no service / request / version key in any letter case, and every other
\* parameter of the input, each occurrence with its value.
C8_NormalizeKeepsEveryOtherParam ==
    svc_base.some =>
        LET src == UrlSplit(url)
            dst == UrlSplit(svc_base.val)
        IN  /\ dst.scheme = src.scheme
            /\ dst.netloc = src.netloc
            /\ dst.path = src.path
            /\ \A kv \in Range(ParseQsl(dst.query)) : ~IsCapsKey(kv[1])
            /\ SameParams(ParseQsl(dst.query), OtherParams(ParseQsl(src.query)))

\* C9 as stated: the capability-request URL carries SERVICE, REQUEST (and for
\* WMS VERSION) exactly once when keys are compared case-insensitively, with
\* the value of the target protocol and version, and every unrelated
\* parameter of the input unchanged.
C9_CapsUrlMandatoryOnce ==
    caps_url.some =>
        LET out == ParseQsl(UrlSplit(caps_url.val).query)
            src == ParseQsl(UrlSplit(Strip(url)).query)
            mandatory ==
                IF url_op = "wms_caps"
                THEN {<<<<"s","e","r","v","i","c","e">>, <<"W","M","S">>>>, <<<<"r","e","q","u","e","s","t">>, <<"G","e","t","C","a","p","a","b","i","l","i","t","i","e","s">>>>,
                      <<<<"v","e","r","s","i","o","n">>, caps_version.val>>}
                ELSE {<<<<"s","e","r","v","i","c","e">>, <<"W","M","T","S">>>>, <<<<"r","e","q","u","e","s","t">>, <<"G","e","t","C","a","p","a","b","i","l","i","t","i","e","s">>>>}
        IN  /\ \A m \in mandatory :
                 LET at == {i \in 1..Len(out) : Lower(out[i][1]) = m[1]}
                 IN  Cardinality(at) = 1 /\ \A i \in at : out[i][2] = m[2]
            /\ SameParams(OtherParams(out), OtherParams(src))

-----------------------------------------------------------------------------
(* WMS capability parser: wms_utils._parse_layers_from_caps *)

(***************************************************************************)
(* A WMS capability document is modelled by its Layer elements 1..n under  *)
(* the Capability element 0: parent[i] < i is the element holding Layer i, *)
(* and the children of an element come in index order.  name[i] is the     *)
(* text of the Layer's Name child (None: no Name child), title[i] that of  *)
(* its Title child, crs[i] and srs[i] the texts of its CRS and of its SRS  *)
(* children.  namespaced says whether the elements carry an XML namespace  *)
(* (WMS 1.3.0) or none (WMS 1.1.1).                                        *)
(***************************************************************************)

\* _findall_any(elem, localname): findall("{*}name") + findall("name").  The
\* first finds the children in any namespace or in none, the second the
\* children in no namespace, so a child without a namespace comes twice.
FindallAny(namespaced, children) == IF namespaced THEN children ELSE children \o children

\* _first_any(elem, localname): the first such child, None when there is none.
FirstAny(children) == IF children = <<>> THEN None ELSE Some(children[1])

\* The Layer children of element e, in document order.
RECURSIVE LayerChildrenFrom(_, _, _)
LayerChildrenFrom(doc, e, i) ==
    IF i > Len(doc.parent) THEN <<>>
    ELSE (IF doc.parent[i] = e THEN <<i>> ELSE <<>>) \o LayerChildrenFrom(doc, e, i + 1)

LayerChildren(doc, e) == LayerChildrenFrom(doc, e, 1)

\* normalize_crs_tokens(text): the codes of one CRS / SRS element.
normalize_crs_tokens(text) ==
    IF text = <<>> THEN <<>>
    ELSE LET chunks == SplitWhitespace(Replace(text, <<",">>, <<" ">>))
         IN  [i \in 1..Len(chunks) |-> Strip(chunks[i])]

\* [t for e in texts for t in normalize_crs_tokens(e.text)]
RECURSIVE TokensOf(_)
TokensOf(texts) ==
    IF texts = <<>> THEN <<>>
    ELSE normalize_crs_tokens(Head(texts)) \o TokensOf(Tail(texts))

\* The last all-digit field of a ':'-separated list; <<>> when there is none.
RECURSIVE LastDigitField(_)
LastDigitField(fields) ==
    IF fields = <<>> THEN <<>>
    ELSE IF IsDigit(fields[Len(fields)]) THEN <<fields[Len(fields)]>>
    ELSE LastDigitField(SubSeq(fields, 1, Len(fields) - 1))

\* A variant of the normalisation that keeps a token with the EPSG prefix in
\* the letter case it was declared in.
NormalizeCrs_keep_case(crs) ==
    IF crs = <<>> THEN <<>>
    ELSE IF StartsWith(Upper(Strip(crs)), <<"E","P","S","G",":">>) THEN <<Strip(crs)>>
    ELSE IF Contains(Upper(Strip(crs)), <<"E","P","S","G">>)
    THEN LET code == LastDigitField(Split(Replace(Strip(crs), <<":",":">>, <<":">>),
                                          <<":">>))
         IN  IF code = <<>> THEN <<>> ELSE <<<<"E","P","S","G",":">> \o code[1]>>
    ELSE <<>>

\* The body of the loop over combined_crs in walk_layers: what one declared
\* token adds to normalized_crs (nothing, or one code).
NormalizeCrs(crs) ==
    LET cs == Strip(crs)
        up == Upper(cs)
    IN  IF crs = <<>> THEN <<>>
        ELSE IF StartsWith(up, <<"E","P","S","G",":">>) THEN <<up>>
        ELSE IF Contains(up, <<"E","P","S","G">>)
             THEN LET code == LastDigitField(Split(Replace(cs, <<":",":">>, <<":">>), <<":">>))
                  IN  IF code = <<>> THEN <<>> ELSE <<<<"E","P","S","G",":">> \o code[1]>>
        ELSE <<>>

RECURSIVE NormalizeAll(_)
NormalizeAll(tokens) ==
    IF tokens = <<>> THEN <<>> ELSE NormalizeCrs(Head(tokens)) \o NormalizeAll(Tail(tokens))

\* sorted(S) for a set of strings.
RECURSIVE Sorted(_)
Sorted(S) ==
    IF S = {} THEN <<>>
    ELSE LET m == CHOOSE x \in S : \A y \in S \ {x} : StrLess(x, y)
         IN  <<m>> \o Sorted(S \ {m})

\* A variant of the test for a named layer that takes a Name child with
\* any text, blank text included.
named_layer_any_text(name_el) == name_el.some /\ name_el.val # <<>>

\* walk_layers stores a Layer element when it has a Name child whose text,
\* stripped, is not empty.
named_layer(name_el) == name_el.some /\ Strip(name_el.val) # <<>>

\* walk_layers(elem, inherited_crs).  An entry also records elem, the Layer
\* element it was built from (not part of the Python dict).
RECURSIVE walk_layers(_, _, _)
RECURSIVE WalkChildren(_, _, _)
\* A variant of walk_layers that hands its children only the codes of the
\* element itself, not those it inherited.
walk_layers_own_only(doc, elem, inherited_crs) ==
    LET own_crs == TokensOf(FindallAny(doc.namespaced, doc.crs[elem]))
                   \o TokensOf(FindallAny(doc.namespaced, doc.srs[elem]))
        combined_crs == inherited_crs \o own_crs
        name_el == doc.name[elem]
        title_el == doc.title[elem]
        here == IF named_layer(name_el)
                THEN <<[name     |-> Strip(name_el.val),
                        title    |-> IF title_el.some /\ title_el.val # <<>>
                                     THEN Strip(title_el.val)
                                     ELSE Strip(name_el.val),
                        crs_list |-> Sorted(Range(NormalizeAll(combined_crs))),
                        elem     |-> elem]>>
                ELSE <<>>
    IN  here \o WalkChildren(doc, FindallAny(doc.namespaced, LayerChildren(doc, elem)),
                             own_crs)

walk_layers(doc, elem, inherited_crs) ==
    LET own_crs == TokensOf(FindallAny(doc.namespaced, doc.crs[elem]))
                   \o TokensOf(FindallAny(doc.namespaced, doc.srs[elem]))
        combined_crs == inherited_crs \o own_crs
        name_el == doc.name[elem]
        title_el == doc.title[elem]
        here == IF named_layer(name_el)
                THEN <<[name     |-> Strip(name_el.val),
                        title    |-> IF title_el.some /\ title_el.val # <<>>
                                     THEN Strip(title_el.val)
                                     ELSE Strip(name_el.val),
                        crs_list |-> Sorted(Range(NormalizeAll(combined_crs))),
                        elem     |-> elem]>>
                ELSE <<>>
    IN  here \o WalkChildren(doc, FindallAny(doc.namespaced, LayerChildren(doc, elem)),
                             combined_crs)

\* The loop over the child Layer elements in walk_layers.
WalkChildren(doc, children, combined_crs) ==
    IF children = <<>> THEN <<>>
    ELSE walk_layers(doc, Head(children), combined_crs)
         \o WalkChildren(doc, Tail(children), combined_crs)

RECURSIVE UniqByName(_, _)
\* A variant of the loop that keeps every entry.
UniqByName_keep_all(all_layers, seen) == all_layers

\* The loop that keeps the first entry of every name.
UniqByName(all_layers, seen) ==
    IF all_layers = <<>> THEN <<>>
    ELSE IF Head(all_layers).name \in seen THEN UniqByName(Tail(all_layers), seen)
    ELSE <<Head(all_layers)>>
         \o UniqByName(Tail(all_layers), seen \cup {Head(all_layers).name})

\* _parse_layers_from_caps for a well-formed document: the walk starts at the
\* first Layer of the Capability element.
parse_layers_from_caps(doc) ==
    LET root_layer == FirstAny(LayerChildren(doc, 0))
    IN  IF ~root_layer.some THEN <<>>
        ELSE UniqByName(walk_layers(doc, root_layer.val, <<>>), {})

-----------------------------------------------------------------------------
(* The capability documents the WMS parser is run on *)

\* Largest number of Layer elements in a capability document.
MaxLayers == 3

\* The text of a Layer's Name child: none, blank, or a name (one padded).
NameChoices == {None, Some(<<" ">>), Some(<<"A">>), Some(<<" ","B"," ">>)}

\* The CRS and SRS children of a Layer: none; one CRS; two CRS, one in URN
\* form; one 1.1.1-style SRS listing several codes, one of them not EPSG
\* and one with the EPSG prefix and no number after it.
DeclChoices ==
    {[crs |-> <<>>, srs |-> <<>>],
     [crs |-> <<<<"E","P","S","G",":","4","3","2","6">>>>, srs |-> <<>>],
     [crs |-> <<<<"E","P","S","G",":","3","8","5","7">>, <<"u","r","n",":","o","g","c",":","d","e","f",":","c","r","s",":","E","P","S","G",":",":","2","5","8","3","2">>>>, srs |-> <<>>],
     [crs |-> <<>>, srs |-> <<<<"e","p","s","g",":","2","5","8","3","2",",","E","P","S","G",":","4","3","2","6"," ","C","R","S",":","8","4"," ","e","p","s","g",":","x">>>>]}

\* The text of the Title child of Layer i in a document that has titles.
TitleText(i) == <<" ", "T", Chr(48 + i), " ">>

ParentMaps(n) == {p \in [1..n -> 0..(n - 1)] : \A i \in 1..n : p[i] < i}

\* The document with the given Layer tree, names and declarations.
WmsDoc(ns, td, p, nm, d) ==
    [namespaced |-> ns,
     parent     |-> p,
     name       |-> nm,
     title      |-> [i \in 1..Len(p) |-> IF td THEN Some(TitleText(i)) ELSE None],
     crs        |-> [i \in 1..Len(p) |-> d[i].crs],
     srs        |-> [i \in 1..Len(p) |-> d[i].srs]]

ParseInit ==
    /\ \E n \in 0..MaxLayers :
          \E ns \in BOOLEAN, td \in BOOLEAN, p \in ParentMaps(n),
             nm \in [1..n -> NameChoices], d \in [1..n -> DeclChoices] :
                wms_doc = WmsDoc(ns, td, p, nm, d)
    /\ wms_layers = None

\* _parse_layers_from_caps applied to wms_doc
ParseLayers ==
    /\ wms_doc # None
    /\ wms_layers = None
    /\ wms_layers' = Some(parse_layers_from_caps(wms_doc))
    /\ UNCHANGED <<wms_doc, notParseVars>>

ParseNext == ParseLayers

InitParse == ParseInit /\ UrlIdle /\ MatrixIdle /\ FormatIdle /\ ArcgisIdle /\ ListIdle /\ ResolveIdle /\ TypeIdle /\ AddIdle /\ GetIdle /\ DialogIdle

SpecParse == InitParse /\ [][ParseNext]_vars

-----------------------------------------------------------------------------
(* Claims about the WMS parser (specification SpecParse) *)

\* The Layer element e and the Layer elements that contain it.
RECURSIVE AncestorsOrSelf(_, _)
AncestorsOrSelf(doc, e) ==
    IF e = 0 THEN {} ELSE {e} \cup AncestorsOrSelf(doc, doc.parent[e])

\* The normalised codes of the CRS and SRS children of the Layer elements in E.
CodesDeclaredOn(doc, E) ==
    UNION {Range(NormalizeAll(TokensOf(doc.crs[a] \o doc.srs[a]))) : a \in E}

IsStrictlySorted(l) == \A i \in 1..(Len(l) - 1) : StrLess(l[i], l[i + 1])

\* C1: each surfaced layer's crs_list is the sorted, duplicate-free list of
\* the normalised codes declared (as CRS or SRS) on its own Layer element or
\* on an ancestor Layer element, and of no other.
C1_CrsListIsOwnAndInherited ==
    wms_layers.some =>
        \A i \in 1..Len(wms_layers.val) :
            LET L == wms_layers.val[i]
            IN  /\ Range(L.crs_list) = CodesDeclaredOn(wms_doc, AncestorsOrSelf(wms_doc, L.elem))
                /\ IsStrictlySorted(L.crs_list)

\* C1 witness: the scenario of the specification.  A surfaced layer below an
\* ancestor that declares EPSG:4326, itself declaring EPSG:3857 and 25832,
\* has the list EPSG:25832, EPSG:3857, EPSG:4326, while a sibling declares
\* nothing and so has only the inherited code.
C1_Witness ==
    /\ wms_layers.some
    /\ \E i, j \in 1..Len(wms_layers.val) :
          LET L == wms_layers.val[i]
              S == wms_layers.val[j]
          IN  /\ wms_doc.parent[L.elem] # 0
              /\ wms_doc.parent[S.elem] = wms_doc.parent[L.elem]
              /\ wms_doc.crs[L.elem] = <<<<"E","P","S","G",":","3","8","5","7">>, <<"u","r","n",":","o","g","c",":","d","e","f",":","c","r","s",":","E","P","S","G",":",":","2","5","8","3","2">>>>
              /\ L.crs_list = <<<<"E","P","S","G",":","2","5","8","3","2">>, <<"E","P","S","G",":","3","8","5","7">>, <<"E","P","S","G",":","4","3","2","6">>>>
              /\ S.crs_list = <<<<"E","P","S","G",":","4","3","2","6">>>>

-----------------------------------------------------------------------------
(* WMTS defaults: wmts_utils._prefer_matrix_set and _prefer_format *)

\* is_3857(crs) of _prefer_matrix_set; crs is an optional string.
is_3857(crs) ==
    LET s == Replace(Lower(IF crs.some THEN crs.val ELSE <<>>), <<":",":">>, <<":">>)
    IN  \/ Contains(s, <<"3","8","5","7">>)
        \/ Contains(s, <<"9","0","0","9","1","3">>)
        \/ Contains(Replace(s, <<" ">>, <<>>), <<"w","e","b","m","e","r","c","a","t","o","r">>)

\* is_4326(crs) of _prefer_matrix_set
is_4326(crs) ==
    LET s == Lower(IF crs.some THEN crs.val ELSE <<>>)
    IN  Contains(s, <<"4","3","2","6">>) \/ Contains(Replace(s, <<" ">>, <<>>), <<"w","g","s","8","4">>)

\* for x in l: if test(x): return x   -- None when the loop ends
FirstWhere(l, test(_)) ==
    LET hits == SelectSeq(l, test)
    IN  IF hits = <<>> THEN None ELSE Some(hits[1])

\* A variant of _prefer_matrix_set with one loop, which returns the first
\* set that indicates either of the two preferred systems.
prefer_matrix_set_one_loop(ss) ==
    IF ss = <<>> THEN None
    ELSE LET m == FirstWhere(ss, LAMBDA x : is_3857(x.crs) \/ is_4326(x.crs))
         IN  IF m.some THEN Some(m.val.id) ELSE Some(ss[1].id)

\* wmts_utils._prefer_matrix_set
prefer_matrix_set(ss) ==
    IF ss = <<>> THEN None
    ELSE LET m == FirstWhere(ss, LAMBDA x : is_3857(x.crs))
             w == FirstWhere(ss, LAMBDA x : is_4326(x.crs))
         IN  IF m.some THEN Some(m.val.id)
             ELSE IF w.some THEN Some(w.val.id)
             ELSE Some(ss[1].id)

\* for pref in prefs: for c in candidates: if c.lower() == pref: return c
RECURSIVE FirstExact(_, _)
FirstExact(candidates, prefs) ==
    IF prefs = <<>> THEN None
    ELSE LET c == FirstWhere(candidates, LAMBDA x : Lower(x) = Head(prefs))
         IN  IF c.some THEN c ELSE FirstExact(candidates, Tail(prefs))

JPGPNG == <<"i","m","a","g","e","/","j","p","g","p","n","g">>
PngPrefs == <<<<"i","m","a","g","e","/","p","n","g">>, <<"i","m","a","g","e","/","p","n","g","8">>, <<"i","m","a","g","e","/","p","n","g","3","2">>>>
JpegPrefs == <<<<"i","m","a","g","e","/","j","p","e","g">>, <<"i","m","a","g","e","/","j","p","g">>>>

\* A variant of _prefer_format whose loops are nested the other way round:
\* the first candidate that equals any of the preferred tokens wins.
prefer_format_first_candidate(f) ==
    IF f = <<>> THEN None
    ELSE LET lower_pairs == SelectSeq(f, LAMBDA x : x # <<>>)
             filtered == SelectSeq(lower_pairs, LAMBDA x : Lower(x) # JPGPNG)
             candidates == IF filtered # <<>> THEN filtered ELSE lower_pairs
             exact == FirstWhere(candidates, LAMBDA x : Lower(x) \in Range(PngPrefs))
             like == FirstWhere(candidates, LAMBDA x : Contains(Lower(x), <<"p","n","g">>))
             jpeg == FirstWhere(candidates, LAMBDA x : Lower(x) \in Range(JpegPrefs))
         IN  IF exact.some THEN exact
             ELSE IF like.some THEN like
             ELSE IF jpeg.some THEN jpeg
             ELSE IF candidates # <<>> THEN Some(candidates[1]) ELSE None

\* wmts_utils._prefer_format
prefer_format(f) ==
    IF f = <<>> THEN None
    ELSE LET lower_pairs == SelectSeq(f, LAMBDA x : x # <<>>)
             filtered == SelectSeq(lower_pairs, LAMBDA x : Lower(x) # JPGPNG)
             candidates == IF filtered # <<>> THEN filtered ELSE lower_pairs
             exact == FirstExact(candidates, PngPrefs)
             like == FirstWhere(candidates, LAMBDA x : Contains(Lower(x), <<"p","n","g">>))
             jpeg == FirstExact(candidates, JpegPrefs)
         IN  IF exact.some THEN exact
             ELSE IF like.some THEN like
             ELSE IF jpeg.some THEN jpeg
             ELSE IF candidates # <<>> THEN Some(candidates[1]) ELSE None

-----------------------------------------------------------------------------
(* ArcGIS export format: rest_utils._parse_supported_formats and
   _prefer_arcgis_format *)

\* rest_utils._parse_supported_formats
parse_supported_formats(str) ==
    LET pieces == SelectSeq(Split(str, <<",">>), LAMBDA t : Strip(t) # <<>>)
    IN  [i \in 1..Len(pieces) |-> Lower(Strip(pieces[i]))]

ArcgisPrefs == <<<<"p","n","g","3","2">>, <<"p","n","g","2","4">>, <<"p","n","g","8">>, <<"p","n","g">>, <<"j","p","g">>, <<"j","p","e","g">>>>

\* for p in prefs: if p in available: return p
RECURSIVE FirstAvailable(_, _)
FirstAvailable(prefs, available) ==
    IF prefs = <<>> THEN None
    ELSE IF Head(prefs) \in Range(available) THEN Some(Head(prefs))
    ELSE FirstAvailable(Tail(prefs), available)

\* A variant of _prefer_arcgis_format that never looks at the request.
prefer_arcgis_format_no_request(requested, available) ==
    LET p == FirstAvailable(ArcgisPrefs, available)
    IN  IF p.some THEN p.val
        ELSE IF available # <<>> THEN available[1] ELSE <<"p","n","g","3","2">>

\* rest_utils._prefer_arcgis_format; requested is an optional string.
prefer_arcgis_format(requested, available) ==
    LET r == Lower(Strip(requested.val))
        p == FirstAvailable(ArcgisPrefs, available)
    IN  IF requested.some /\ requested.val # <<>> /\ r \in Range(available) THEN r
        ELSE IF p.some THEN p.val
        ELSE IF available # <<>> THEN available[1] ELSE <<"p","n","g","3","2">>

-----------------------------------------------------------------------------
(* The inputs of the default selection rules, and their specifications *)

\* Largest number of tile matrix sets a layer links.
MaxSets == 3

\* Largest number of formats a layer or a service advertises.
MaxFormats == 3

\* A linked tile matrix set, as _parse_layers builds it: the id, and the
\* SupportedCRS that _parse_tile_matrix_sets found for it (None: not found).
SetChoices ==
    {[id |-> <<"G","o","o","g","l","e","M","a","p","s","C","o","m","p","a","t","i","b","l","e">>, crs |-> Some(<<"E","P","S","G",":","3","8","5","7">>)],
     [id |-> <<"g">>, crs |-> Some(<<"u","r","n",":","o","g","c",":","d","e","f",":","c","r","s",":","E","P","S","G",":",":","9","0","0","9","1","3">>)],
     [id |-> <<"w","m">>, crs |-> Some(<<"W","e","b"," ","M","e","r","c","a","t","o","r">>)],
     [id |-> <<"E","P","S","G","4","3","2","6">>, crs |-> Some(<<"u","r","n",":","o","g","c",":","d","e","f",":","c","r","s",":","E","P","S","G",":",":","4","3","2","6">>)],
     [id |-> <<"w">>, crs |-> Some(<<"W","G","S"," ","8","4">>)],
     [id |-> <<"3","8","5","7">>, crs |-> Some(<<"E","P","S","G",":","2","5","8","3","2">>)],
     [id |-> <<"x">>, crs |-> None]}

MatrixInit == sets \in SeqUpTo(SetChoices, MaxSets) /\ default_matrix_set = None

\* _parse_layers computes the layer's default_matrix_set
PreferMatrixSet ==
    /\ default_matrix_set = None
    /\ default_matrix_set' = Some(prefer_matrix_set(sets))
    /\ UNCHANGED <<sets, notMatrixVars>>

MatrixNext == PreferMatrixSet

InitMatrix == MatrixInit /\ UrlIdle /\ ParseIdle /\ FormatIdle /\ ArcgisIdle /\ ListIdle /\ ResolveIdle /\ TypeIdle /\ AddIdle /\ GetIdle /\ DialogIdle

SpecMatrix == InitMatrix /\ [][MatrixNext]_vars

\* The Format texts of a WMTS layer.
FormatChoices ==
    {<<"i","m","a","g","e","/","p","n","g">>, <<"i","m","a","g","e","/","p","n","g","8">>, <<"I","m","a","g","e","/","P","N","G","3","2">>, <<"i","m","a","g","e","/","a","p","n","g">>, <<"i","m","a","g","e","/","j","p","e","g">>,
     <<"i","m","a","g","e","/","j","p","g">>, <<"i","m","a","g","e","/","j","p","g","p","n","g">>, <<"i","m","a","g","e","/","t","i","f","f">>, <<>>}

FormatInit == fmts \in SeqUpTo(FormatChoices, MaxFormats) /\ default_format = None

\* _parse_layers computes the layer's default_format
PreferFormat ==
    /\ default_format = None
    /\ default_format' = Some(prefer_format(fmts))
    /\ UNCHANGED <<fmts, notFormatVars>>

FormatNext == PreferFormat

InitFormat == FormatInit /\ UrlIdle /\ ParseIdle /\ MatrixIdle /\ ArcgisIdle /\ ListIdle /\ ResolveIdle /\ TypeIdle /\ AddIdle /\ GetIdle /\ DialogIdle

SpecFormat == InitFormat /\ [][FormatNext]_vars

\* The comma-separated pieces of supportedImageFormatTypes.
FmtTokenChoices ==
    {<<"P","N","G","3","2">>, <<" ","P","N","G","2","4">>, <<"p","n","g","8">>, <<" ","P","N","G"," ">>, <<" ","J","P","G">>, <<"j","p","e","g">>, <<"G","I","F">>, <<" ">>}

\* The format a caller asks for.
RequestChoices ==
    {None, Some(<<>>), Some(<<"p","n","g">>), Some(<<" ","J","P","G"," ">>), Some(<<"g","i","f">>),
     Some(<<"i","m","a","g","e","/","j","p","e","g">>), Some(<<"t","i","f","f">>)}

ArcgisInit ==
    /\ fmt_tokens \in SeqUpTo(FmtTokenChoices, MaxFormats)
    /\ fmt_str = Join(fmt_tokens, <<",">>)
    /\ requested_fmt \in RequestChoices
    /\ chosen_fmt = None

\* add_rest_layer parses the advertised formats and chooses one
PreferArcgisFormat ==
    /\ chosen_fmt = None
    /\ chosen_fmt' = Some(prefer_arcgis_format(requested_fmt, parse_supported_formats(fmt_str)))
    /\ UNCHANGED <<fmt_tokens, fmt_str, requested_fmt, notArcgisVars>>

ArcgisNext == PreferArcgisFormat

InitArcgis == ArcgisInit /\ UrlIdle /\ ParseIdle /\ MatrixIdle /\ FormatIdle /\ ListIdle /\ ResolveIdle /\ TypeIdle /\ AddIdle /\ GetIdle /\ DialogIdle

SpecArcgis == InitArcgis /\ [][ArcgisNext]_vars

-----------------------------------------------------------------------------
(* Claims about the default selection rules *)

\* What the advertised CRS of each modelled tile matrix set indicates.
CrsKind(s) ==
    CASE s.crs = Some(<<"E","P","S","G",":","3","8","5","7">>) -> "mercator"
      [] s.crs = Some(<<"u","r","n",":","o","g","c",":","d","e","f",":","c","r","s",":","E","P","S","G",":",":","9","0","0","9","1","3">>) -> "mercator"
      [] s.crs = Some(<<"W","e","b"," ","M","e","r","c","a","t","o","r">>) -> "mercator"
      [] s.crs = Some(<<"u","r","n",":","o","g","c",":","d","e","f",":","c","r","s",":","E","P","S","G",":",":","4","3","2","6">>) -> "wgs84"
      [] s.crs = Some(<<"W","G","S"," ","8","4">>) -> "wgs84"
      [] OTHER -> "other"

\* The least index of l whose element satisfies test; 0 when there is none.
FirstIndex(l, test(_)) ==
    LET hits == {i \in 1..Len(l) : test(l[i])}
    IN  IF hits = {} THEN 0 ELSE CHOOSE i \in hits : \A j \in hits : i <= j

\* C5: default_matrix_set is the id of the first linked set whose CRS
\* indicates EPSG:3857 / 900913 / web mercator when there is one; else of the
\* first that indicates EPSG:4326 / wgs84; else of the first linked set; and
\* it is None only when the layer links no set.
C5_DefaultMatrixSetPreference ==
    default_matrix_set.some =>
        LET r == default_matrix_set.val
            m == FirstIndex(sets, LAMBDA s : CrsKind(s) = "mercator")
            w == FirstIndex(sets, LAMBDA s : CrsKind(s) = "wgs84")
        IN  /\ (r = None) <=> (sets = <<>>)
            /\ m # 0 => r = Some(sets[m].id)
            /\ (m = 0 /\ w # 0) => r = Some(sets[w].id)
            /\ (m = 0 /\ w = 0 /\ sets # <<>>) => r = Some(sets[1].id)

\* C5 witness: a layer that links a WGS 84 set before its web mercator set
\* has the web mercator set as its default.
C5_Witness ==
    /\ default_matrix_set.some
    /\ Len(sets) >= 2
    /\ CrsKind(sets[1]) = "wgs84"
    /\ CrsKind(sets[2]) = "mercator"
    /\ default_matrix_set.val = Some(sets[2].id)

\* C6: the default format is chosen among the formats other than
\* image/jpgpng, by the order: image/png, image/png8, image/png32 (the whole
\* token, in any letter case); else the first that contains "png"; else
\* image/jpeg, image/jpg; else the first of them.  image/jpgpng is the result
\* only when the list holds no other format.
C6_DefaultFormatPreference ==
    default_format.some =>
        LET r == default_format.val
            given == SelectSeq(fmts, LAMBDA x : x # <<>>)
            rest == SelectSeq(given, LAMBDA x : Lower(x) # JPGPNG)
            is(t) == FirstIndex(rest, LAMBDA x : Lower(x) = t)
            png == FirstIndex(rest, LAMBDA x : Contains(Lower(x), <<"p","n","g">>))
            want ==
                IF is(<<"i","m","a","g","e","/","p","n","g">>) # 0 THEN rest[is(<<"i","m","a","g","e","/","p","n","g">>)]
                ELSE IF is(<<"i","m","a","g","e","/","p","n","g","8">>) # 0 THEN rest[is(<<"i","m","a","g","e","/","p","n","g","8">>)]
                ELSE IF is(<<"i","m","a","g","e","/","p","n","g","3","2">>) # 0 THEN rest[is(<<"i","m","a","g","e","/","p","n","g","3","2">>)]
                ELSE IF png # 0 THEN rest[png]
                ELSE IF is(<<"i","m","a","g","e","/","j","p","e","g">>) # 0 THEN rest[is(<<"i","m","a","g","e","/","j","p","e","g">>)]
                ELSE IF is(<<"i","m","a","g","e","/","j","p","g">>) # 0 THEN rest[is(<<"i","m","a","g","e","/","j","p","g">>)]
                ELSE rest[1]
        IN  /\ rest # <<>> => r = Some(want)
            /\ (rest = <<>> /\ given # <<>>) => (r.some /\ Lower(r.val) = JPGPNG)
            /\ given = <<>> => r = None

\* C6 witness: among image/jpgpng, image/png8 and image/png, in that order,
\* the default is image/png.
C6_Witness ==
    /\ default_format.some
    /\ fmts = <<JPGPNG, <<"i","m","a","g","e","/","p","n","g","8">>, <<"i","m","a","g","e","/","p","n","g">>>>
    /\ default_format.val = Some(<<"i","m","a","g","e","/","p","n","g">>)

\* The format each modelled piece of supportedImageFormatTypes advertises
\* (none for a blank piece), and the format each modelled request asks for.
TokenFormat(t) ==
    CASE t = <<"P","N","G","3","2">> -> <<<<"p","n","g","3","2">>>>
      [] t = <<" ","P","N","G","2","4">> -> <<<<"p","n","g","2","4">>>>
      [] t = <<"p","n","g","8">> -> <<<<"p","n","g","8">>>>
      [] t = <<" ","P","N","G"," ">> -> <<<<"p","n","g">>>>
      [] t = <<" ","J","P","G">> -> <<<<"j","p","g">>>>
      [] t = <<"j","p","e","g">> -> <<<<"j","p","e","g">>>>
      [] t = <<"G","I","F">> -> <<<<"g","i","f">>>>
      [] OTHER -> <<>>

RECURSIVE Advertised(_)
Advertised(tokens) ==
    IF tokens = <<>> THEN <<>> ELSE TokenFormat(Head(tokens)) \o Advertised(Tail(tokens))

RequestFormat(q) ==
    CASE q = Some(<<"p","n","g">>) -> <<<<"p","n","g">>>>
      [] q = Some(<<" ","J","P","G"," ">>) -> <<<<"j","p","g">>>>
      [] q = Some(<<"g","i","f">>) -> <<<<"g","i","f">>>>
      [] q = Some(<<"i","m","a","g","e","/","j","p","e","g">>) -> <<<<"i","m","a","g","e","/","j","p","e","g">>>>
      [] q = Some(<<"t","i","f","f">>) -> <<<<"t","i","f","f">>>>
      [] OTHER -> <<>>

\* C10: _prefer_arcgis_format returns the requested format when it is
\* advertised; otherwise the first of png32, png24, png8, png, jpg, jpeg that
\* is advertised; otherwise the first advertised format; otherwise png32.
\* "PNG32, PNG24, JPG" with no request gives png32.
C10_ArcgisFormatPreference ==
    chosen_fmt.some =>
        LET r == chosen_fmt.val
            adv == Advertised(fmt_tokens)
            req == RequestFormat(requested_fmt)
            asked == req # <<>> /\ req[1] \in Range(adv)
            p == FirstIndex(ArcgisPrefs, LAMBDA x : x \in Range(adv))
        IN  /\ asked => r = req[1]
            /\ (~asked /\ p # 0) => r = ArcgisPrefs[p]
            /\ (~asked /\ p = 0 /\ adv # <<>>) => r = adv[1]
            /\ (~asked /\ p = 0 /\ adv = <<>>) => r = <<"p","n","g","3","2">>
            /\ (fmt_str = <<"P","N","G","3","2",","," ","P","N","G","2","4",","," ","J","P","G">> /\ requested_fmt = None) => r = <<"p","n","g","3","2">>

\* C10 witness: the service advertises "PNG32, PNG24, JPG", nothing is
\* requested, and png32 is chosen.
C10_Witness ==
    /\ chosen_fmt = Some(<<"p","n","g","3","2">>)
    /\ fmt_str = <<"P","N","G","3","2",","," ","P","N","G","2","4",","," ","J","P","G">>
    /\ requested_fmt = None

-----------------------------------------------------------------------------
(* WMTS capability parser: wmts_utils._parse_tile_matrix_sets, _parse_layers *)

(***************************************************************************)
(* A WMTS capability document is modelled by the children of its Contents  *)
(* element: tms, the TileMatrixSet elements [id, crs] (the text of the     *)
(* Identifier and of the SupportedCRS child, None when the child is        *)
(* missing), and layers, the Layer elements [identifier, title, formats,   *)
(* links, styles]; and by gettile, the href of the GetTile operation       *)
(* ("" when the document names none).                                      *)
(***************************************************************************)

\* d.get(k): the value of key k in a dict, None when k is not a key.
DictGet(d, k) ==
    LET at == {i \in 1..Len(d) : d[i][1] = k}
    IN  IF at = {} THEN None ELSE Some(d[CHOOSE i \in at : TRUE][2])

\* wmts_utils._parse_tile_matrix_sets: the dict tms_id -> crs (the count of
\* tile matrices, which nothing reads, is left out).
RECURSIVE parse_tile_matrix_sets(_)
parse_tile_matrix_sets(tms) ==
    IF tms = <<>> THEN <<>>
    ELSE LET t == tms[Len(tms)]
             out == parse_tile_matrix_sets(SubSeq(tms, 1, Len(tms) - 1))
         IN  IF ~t.id.some THEN out
             ELSE DictSet(out, Strip(t.id.val),
                          IF t.crs.some THEN Some(Strip(t.crs.val)) ELSE None)

\* The matrix-set links of one layer: [id, crs] for every non-empty link.
RECURSIVE MsLinks(_, _)
MsLinks(links, tms_dict) ==
    IF links = <<>> THEN <<>>
    ELSE LET ms_id == Strip(Head(links))
             found == DictGet(tms_dict, ms_id)
         IN  (IF ms_id = <<>> THEN <<>>
              ELSE <<[id |-> ms_id, crs |-> IF found.some THEN found.val ELSE None]>>)
             \o MsLinks(Tail(links), tms_dict)

\* The default style of one layer: the last style flagged isDefault, else the
\* first named "default" in any letter case, else the first style, else None.
DefaultStyle(styles) ==
    LET named == SelectSeq(styles, LAMBDA st : Strip(st.id) # <<>>)
        ids == [i \in 1..Len(named) |-> Strip(named[i].id)]
        flagged == SelectSeq(named, LAMBDA st : st.is_default)
        byName == FirstWhere(ids, LAMBDA x : Lower(x) = <<"d","e","f","a","u","l","t">>)
    IN  IF flagged # <<>> THEN Some(Strip(flagged[Len(flagged)].id))
        ELSE IF byName.some THEN byName
        ELSE IF ids # <<>> THEN Some(ids[1]) ELSE None

\* The entry _parse_layers builds for one Layer element with an identifier.
WmtsLayerEntry(layer, tms_dict) ==
    LET identifier == Strip(layer.identifier.val)
        stripped == [i \in 1..Len(layer.formats) |-> Strip(layer.formats[i])]
        f == SelectSeq(stripped, LAMBDA x : x # <<>>)
        ms_links == MsLinks(layer.links, tms_dict)
        named == SelectSeq(layer.styles, LAMBDA st : Strip(st.id) # <<>>)
    IN  [identifier         |-> identifier,
         title              |-> IF layer.title.some THEN Strip(layer.title.val)
                                ELSE identifier,
         formats            |-> f,
         matrix_sets        |-> ms_links,
         styles             |-> [i \in 1..Len(named) |-> Strip(named[i].id)],
         default_style      |-> DefaultStyle(layer.styles),
         default_format     |-> prefer_format(f),
         default_matrix_set |-> prefer_matrix_set(ms_links)]

\* wmts_utils._parse_layers
RECURSIVE wmts_parse_layers(_, _)
wmts_parse_layers(layers, tms_dict) ==
    IF layers = <<>> THEN <<>>
    ELSE (IF Head(layers).identifier.some /\ Strip(Head(layers).identifier.val) # <<>>
          THEN <<WmtsLayerEntry(Head(layers), tms_dict)>>
          ELSE <<>>)
         \o wmts_parse_layers(Tail(layers), tms_dict)

-----------------------------------------------------------------------------
(* ArcGIS REST helpers: rest_utils *)

\* rest_utils._clean_base_url
clean_base_url(u) ==
    UrlUnsplit([UrlSplit(Strip(u)) EXCEPT !.query = <<>>, !.fragment = <<>>])

\* rest_utils._ensure_json_suffix
ensure_json_suffix(u) ==
    IF Contains(Lower(u), <<"f","=","j","s","o","n">>) THEN u
    ELSE u \o (IF Contains(u, <<"?">>) THEN <<"&">> ELSE <<"?">>) \o <<"f","=","j","s","o","n">>

\* rest_utils._detect_service_type_from_url
detect_service_type_from_url(u) ==
    IF Contains(Lower(u), <<"/","f","e","a","t","u","r","e","s","e","r","v","e","r">>) THEN "FEATURE"
    ELSE IF Contains(Lower(u), <<"/","m","a","p","s","e","r","v","e","r">>) THEN "MAP"
    ELSE IF Contains(Lower(u), <<"/","i","m","a","g","e","s","e","r","v","e","r">>) THEN "MAP"
    ELSE "UNKNOWN"

\* rest_utils._detect_service_type_from_payload; a layer of the service info
\* is [id, name, geometryType], the last two optional.
detect_service_type_from_payload(info) ==
    IF info.layers # <<>>
    THEN IF \E i \in 1..Len(info.layers) : info.layers[i].geometryType.some
         THEN "FEATURE" ELSE "MAP"
    ELSE "UNKNOWN"

\* str(n) for 0 <= n <= 9, the layer ids of the modelled services.
IntStr(n) == <<Chr(48 + n)>>

-----------------------------------------------------------------------------
(* Service Type Resolver: main.py *)

\* A variant of detect_service_type that looks for the WMTS marks before
\* the REST marks.
detect_service_type_wmts_first(u) ==
    LET l == Lower(u)
    IN  IF u = <<>> THEN "WMS"
        ELSE IF \/ Contains(l, <<"s","e","r","v","i","c","e","=","w","m","t","s">>)
                \/ Contains(l, <<"{","t","i","l","e","m","a","t","r","i","x","}">>)
                \/ Contains(l, <<"t","i","l","e","m","a","t","r","i","x","s","e","t","=">>)
                \/ Contains(l, <<"/","w","m","t","s","/">>) THEN "WMTS"
        ELSE IF \/ Contains(l, <<"/","m","a","p","s","e","r","v","e","r">>)
                \/ Contains(l, <<"/","f","e","a","t","u","r","e","s","e","r","v","e","r">>)
                \/ Contains(l, <<"/","r","e","s","t","/","s","e","r","v","i","c","e","s","/">>) THEN "REST"
        ELSE "WMS"

\* main.detect_service_type
detect_service_type(u) ==
    LET l == Lower(u)
    IN  IF u = <<>> THEN "WMS"
        ELSE IF \/ Contains(l, <<"/","m","a","p","s","e","r","v","e","r">>)
                \/ Contains(l, <<"/","f","e","a","t","u","r","e","s","e","r","v","e","r">>)
                \/ Contains(l, <<"/","r","e","s","t","/","s","e","r","v","i","c","e","s","/">>) THEN "REST"
        ELSE IF \/ Contains(l, <<"s","e","r","v","i","c","e","=","w","m","t","s">>)
                \/ Contains(l, <<"{","t","i","l","e","m","a","t","r","i","x","}">>)
                \/ Contains(l, <<"t","i","l","e","m","a","t","r","i","x","s","e","t","=">>)
                \/ Contains(l, <<"/","w","m","t","s","/">>) THEN "WMTS"
        ELSE "WMS"

\* The type names of EuropeOrthoWMSPlugin._current_service_type
T_WMS == <<"W","M","S">>
T_WMTS == <<"W","M","T","S">>
T_REST == <<"R","E","S","T">>

TypeName(t) ==
    CASE t = T_WMS -> "WMS" [] t = T_WMTS -> "WMTS" [] t = T_REST -> "REST" [] OTHER -> "OTHER"

\* A variant of _current_service_type that asks the catalog before the
\* dialog's selector.
current_service_type_catalog_first(selector, entry_type, u) ==
    LET st == Upper(Strip(selector.val))
    IN  IF entry_type.some THEN TypeName(Upper(entry_type.val))
        ELSE IF selector.some
                /\ st \in {T_WMS, T_WMTS, T_REST, <<"A","R","C","G","I","S"," ","R","E","S","T">>, <<"A","R","C","G","I","S","_","R","E","S","T">>}
        THEN (IF Contains(st, T_REST) THEN "REST" ELSE TypeName(st))
        ELSE detect_service_type(u)

\* EuropeOrthoWMSPlugin._current_service_type.  selector is the text of the
\* dialog's serviceType() (None: the dialog has no such method), entry_type
\* the "type" of the catalog entry of the current country and region (None:
\* no entry).
current_service_type(selector, entry_type, u) ==
    LET st == Upper(Strip(selector.val))
    IN  IF selector.some
           /\ st \in {T_WMS, T_WMTS, T_REST, <<"A","R","C","G","I","S"," ","R","E","S","T">>, <<"A","R","C","G","I","S","_","R","E","S","T">>}
        THEN (IF Contains(st, T_REST) THEN "REST" ELSE TypeName(st))
        ELSE IF entry_type.some THEN TypeName(Upper(entry_type.val))
        ELSE detect_service_type(u)

-----------------------------------------------------------------------------
(* Layer listing: EuropeOrthoWMSPlugin._on_list_layers, load_wms_layers,
   load_wmts_layers, load_rest_layers *)

\* Largest number of listing actions in one run.
MaxListings == 2

\* What the dialog holds when "List Layers" is clicked: the URL text, the
\* protocol selector and the type of the current catalog entry.
ListUrls ==
    {<<" ","h","t","t","p",":","/","/","h","/","o","w","s","?","s","e","r","v","i","c","e","=","W","M","S","&","m","a","p","=","a"," ">>, <<"h","t","t","p","s",":","/","/","h",".","x","/","a","/","w","m","t","s","/">>,
     <<"h","t","t","p",":","/","/","h","/","r","e","s","t","/","s","e","r","v","i","c","e","s","/","o","/","M","a","p","S","e","r","v","e","r">>, <<"h","t","t","p",":","/","/","h","/","o","/","F","e","a","t","u","r","e","S","e","r","v","e","r","/">>,
     <<"h","t","t","p",":","/","/","h","/","r","e","s","t","/","s","e","r","v","i","c","e","s","/","o">>}

SelectorChoices == {None, Some(<<" ","w","m","t","s">>), Some(<<"A","r","c","G","I","S"," ","R","E","S","T">>)}

EntryChoices == {None, Some(T_WMS), Some(T_WMTS), Some(T_REST)}

\* A Layer element without CRS and SRS children.
NoDecl == [crs |-> <<>>, srs |-> <<>>]

\* The capability documents a WMS server answers with, each with the href of
\* its GetMap OnlineResource ("" when it names none).
ServedWms ==
    {[doc |-> WmsDoc(TRUE, TRUE, <<0, 1, 1>>, <<None, Some(<<"A">>), Some(<<" ","B"," ">>)>>,
                     <<[crs |-> <<<<"E","P","S","G",":","4","3","2","6">>>>, srs |-> <<>>],
                       [crs |-> <<<<"E","P","S","G",":","3","8","5","7">>, <<"u","r","n",":","o","g","c",":","d","e","f",":","c","r","s",":","E","P","S","G",":",":","2","5","8","3","2">>>>,
                        srs |-> <<>>],
                       NoDecl>>),
      getmap |-> <<"h","t","t","p",":","/","/","h","/","m","a","p","?","m","a","p","=","a","&","S","E","R","V","I","C","E","=","W","M","S">>],
     [doc |-> WmsDoc(FALSE, FALSE, <<0, 1>>, <<Some(<<"R">>), Some(<<"A">>)>>,
                     <<[crs |-> <<>>, srs |-> <<<<"e","p","s","g",":","2","5","8","3","2",",","E","P","S","G",":","4","3","2","6"," ","C","R","S",":","8","4">>>>],
                       NoDecl>>),
      getmap |-> <<>>],
     [doc |-> WmsDoc(TRUE, FALSE, <<0>>, <<None>>, <<NoDecl>>),
      getmap |-> <<>>]}

\* The URL a redirected capability fetch ends at.
RedirectedUrl == <<"h","t","t","p","s",":","/","/","r",".","x","/","o","w","s","?","r","e","q","u","e","s","t","=","G","e","t","C","a","p","a","b","i","l","i","t","i","e","s","&","m","a","p","=","b">>

\* What a capability fetch of load_wms_layers can come back with:
\* http_get_bytes raises RuntimeError, the XML does not parse, or a document
\* arrives, from the requested URL or from the one it redirected to.
WmsReplies ==
    {[kind |-> "network_error"], [kind |-> "parse_error"]} \cup
    {[kind |-> "doc", doc |-> s.doc, getmap |-> s.getmap, final |-> f] :
        s \in ServedWms, f \in {None, Some(RedirectedUrl)}}

\* wms_utils._extract_getmap_base: the advertised href, stripped.
extract_getmap_base(reply) == Strip(reply.getmap)

\* The layers load_wms_layers gets from a reply; <<>> when it has none.
WmsReplyLayers(reply) ==
    IF reply.kind = "doc" THEN parse_layers_from_caps(reply.doc) ELSE <<>>

\* A variant of the item builder that never uses the advertised GetMap
\* endpoint and always stores the base of the capability URL.
WmsItems_caps_base_only(reply, used_caps_url) ==
    LET layers == parse_layers_from_caps(reply.doc)
        base_url == Wms_normalize_service_base(used_caps_url)
    IN  [i \in 1..Len(layers) |->
            [text0    |-> layers[i].name,
             text1    |-> layers[i].title,
             base_url |-> base_url,
             payload  |-> layers[i].crs_list]]

\* The tree items load_wms_layers builds from a reply with layers.
WmsItems(reply, used_caps_url) ==
    LET layers == parse_layers_from_caps(reply.doc)
        advertised_getmap == extract_getmap_base(reply)
        base_url == Wms_normalize_service_base(
                        IF advertised_getmap # <<>> THEN advertised_getmap
                        ELSE used_caps_url)
    IN  [i \in 1..Len(layers) |->
            [text0    |-> layers[i].name,
             text1    |-> layers[i].title,
             base_url |-> base_url,
             payload  |-> layers[i].crs_list]]

\* The message load_wms_layers appends to errors after a failed attempt.
WmsError(ver, reply) ==
    [ver |-> ver, what |-> IF reply.kind = "doc" THEN "no_layers" ELSE reply.kind]

\* A variant of the error bookkeeping that keeps only the latest message.
WmsErrorsAfter_latest_only(errs, ver, reply) == <<WmsError(ver, reply)>>

\* errors.append(...) in load_wms_layers
WmsErrorsAfter(errs, ver, reply) == Append(errs, WmsError(ver, reply))

\* A variant of the loop of load_wms_layers without the return after the
\* tree has been filled.
WmsLoopControl_no_return(i, listed) ==
    IF i < Len(WmsVersions) THEN "next"
    ELSE IF listed THEN "return" ELSE "report"

\* The control flow of the loop of load_wms_layers after attempt i: return
\* once the tree is filled, else go on to the next version, and report the
\* errors when no version is left.
WmsLoopControl(i, listed) ==
    IF listed THEN "return"
    ELSE IF i < Len(WmsVersions) THEN "next"
    ELSE "report"

\* The capability documents a WMTS server answers with.
ServedWmts ==
    {[tms |-> <<[id |-> Some(<<"G","o","o","g","l","e","M","a","p","s","C","o","m","p","a","t","i","b","l","e">>), crs |-> Some(<<"E","P","S","G",":","3","8","5","7">>)],
                [id |-> Some(<<"E","P","S","G","4","3","2","6">>),
                 crs |-> Some(<<"u","r","n",":","o","g","c",":","d","e","f",":","c","r","s",":","E","P","S","G",":",":","4","3","2","6">>)]>>,
      layers |-> <<[identifier |-> Some(<<"o","r","t","h","o">>), title |-> None,
                    formats |-> <<<<"i","m","a","g","e","/","j","p","g","p","n","g">>, <<"i","m","a","g","e","/","j","p","e","g">>>>,
                    links |-> <<<<"E","P","S","G","4","3","2","6">>, <<"G","o","o","g","l","e","M","a","p","s","C","o","m","p","a","t","i","b","l","e">>>>,
                    styles |-> <<[id |-> <<"d","e","f","a","u","l","t">>, is_default |-> TRUE]>>],
                   [identifier |-> None, title |-> Some(<<"x">>), formats |-> <<>>,
                    links |-> <<>>, styles |-> <<>>]>>,
      gettile |-> <<"h","t","t","p",":","/","/","h","/","t","i","l","e","s","?">>],
     [tms |-> <<>>, layers |-> <<>>, gettile |-> <<>>]}

WmtsReplies ==
    {[kind |-> "network_error"], [kind |-> "parse_error"]} \cup
    {[kind |-> "doc", doc |-> d, final |-> f] :
        d \in ServedWmts, f \in {None, Some(RedirectedUrl)}}

\* The tree items load_wmts_layers builds.
WmtsItems(layers, caps_base, tile_base) ==
    [i \in 1..Len(layers) |->
        [text0    |-> layers[i].identifier,
         text1    |-> layers[i].title,
         base_url |-> caps_base,
         payload  |-> [formats            |-> layers[i].formats,
                       matrix_sets        |-> layers[i].matrix_sets,
                       styles             |-> layers[i].styles,
                       default_style      |-> layers[i].default_style,
                       default_format     |-> layers[i].default_format,
                       default_matrix_set |-> layers[i].default_matrix_set,
                       caps_base          |-> caps_base,
                       tile_base          |-> tile_base]]]

\* A key of a JSON object whose value is null: falsy like a missing key
\* (None), but present.
JsonNull == [some |-> FALSE, val |-> <<"n","u","l","l">>]

\* The service info an ArcGIS REST server answers with; in one of them a
\* name is part of another, two layers have one name, and a name is a number.
ServedRest ==
    {[layers |-> <<[id |-> 0, name |-> Some(<<"R","o","a","d","s">>), geometryType |-> None],
                   [id |-> 1, name |-> None, geometryType |-> None]>>,
      supportedImageFormatTypes |-> <<"P","N","G","3","2",","," ","P","N","G","2","4",","," ","J","P","G">>],
     [layers |-> <<[id |-> 2, name |-> Some(<<"P","a","r","c","e","l","s">>),
                    geometryType |-> Some(<<"e","s","r","i","G","e","o","m","e","t","r","y","P","o","l","y","g","o","n">>)]>>,
      supportedImageFormatTypes |-> <<>>],
     [layers |-> <<[id |-> 0, name |-> Some(<<"R","o","a","d","s">>), geometryType |-> None],
                   [id |-> 1, name |-> JsonNull, geometryType |-> None]>>,
      supportedImageFormatTypes |-> <<"P","N","G">>],
     [layers |-> <<[id |-> 0, name |-> Some(<<"M","a","i","n"," ","R","o","a","d","s">>), geometryType |-> None],
                   [id |-> 1, name |-> Some(<<"R","o","a","d","s">>), geometryType |-> None],
                   [id |-> 2, name |-> Some(<<"R","o","a","d","s">>), geometryType |-> None],
                   [id |-> 3, name |-> Some(<<"1">>), geometryType |-> None]>>,
      supportedImageFormatTypes |-> <<"P","N","G">>],
     [layers |-> <<>>, supportedImageFormatTypes |-> <<>>]}

\* What the fetch of load_rest_layers and add_rest_layer can come back with:
\* requests raises RequestException, the body is no JSON (ValueError), the
\* JSON document is no object, or the info arrives.
RestReplies ==
    {[kind |-> "request_error"], [kind |-> "bad_json"], [kind |-> "not_object"]} \cup
    {[kind |-> "info", info |-> r] : r \in ServedRest}

\* The layers load_rest_layers makes items of: QTreeWidgetItem takes
\* strings only, so at the first layer whose name is null the loop ends by
\* a TypeError, with the items of the layers before it in the tree.
RestItemLayers(layers) ==
    LET nulls == {i \in 1..Len(layers) : layers[i].name = JsonNull}
    IN  IF nulls = {} THEN layers
        ELSE SubSeq(layers, 1, (CHOOSE i \in nulls : \A j \in nulls : i <= j) - 1)

\* The tree items load_rest_layers adds for a service of the given kind.
RestItems(info, svc_type, base_url) ==
    [i \in 1..Len(RestItemLayers(info.layers)) |->
        LET L == info.layers[i]
            lname == IF L.name.some THEN L.name.val ELSE <<"L","a","y","e","r"," ">> \o IntStr(L.id)
        IN  [text0    |-> lname,
             text1    |-> <<"I","D"," ">> \o IntStr(L.id),
             base_url |-> base_url,
             payload  |-> [service_type |-> svc_type,
                           id           |-> L.id,
                           name         |-> lname,
                           geometryType |-> IF svc_type = "FEATURE" THEN L.geometryType
                                            ELSE None,
                           formats      |-> IF svc_type = "MAP"
                                            THEN parse_supported_formats(
                                                     info.supportedImageFormatTypes)
                                            ELSE <<>>]]]

ListInit ==
    /\ url_text = <<>>
    /\ service_type = "none"
    /\ list_pc = "idle"
    /\ ver_idx = 0
    /\ tree = <<>>
    /\ errors = <<>>
    /\ fetches = <<>>
    /\ reports = <<>>
    /\ attempts = <<>>
    /\ listings = 0

\* _on_list_layers up to the call of the load function: read the URL,
\* resolve the service type, clear the tree and dispatch on the type.
OnListLayers ==
    /\ list_pc = "idle"
    /\ listings < MaxListings
    /\ \E u \in ListUrls, selector \in SelectorChoices, entry_type \in EntryChoices :
          LET text == Strip(u)
              st == current_service_type(selector, entry_type, text)
          IN  /\ url_text' = text
              /\ service_type' = st
              /\ list_pc' = CASE st = "WMS" -> "wms"
                              [] st = "WMTS" -> "wmts"
                              [] st = "REST" -> "rest"
                              [] OTHER -> "idle"
              /\ ver_idx' = IF st = "WMS" THEN 1 ELSE 0
              /\ reports' = IF st \in {"WMS", "WMTS", "REST"} THEN <<>>
                            ELSE <<[title |-> "Error", details |-> <<"unknown_type">>]>>
    /\ tree' = <<>>
    /\ errors' = <<>>
    /\ fetches' = <<>>
    /\ attempts' = <<>>
    /\ listings' = listings + 1
    /\ UNCHANGED notListVars

\* One pass of the loop of load_wms_layers: build the capability URL of the
\* next version, fetch it, parse the layers; fill the tree and return, or
\* note the error and go on; after the last version, report the errors.
WmsAttempt ==
    /\ list_pc = "wms"
    /\ \E reply \in WmsReplies :
          LET ver == WmsVersions[ver_idx]
              wms_link == Strip(url_text)
              wms_caps_url == Wms_build_caps_url(wms_link, ver)
              used_caps_url == IF reply.kind = "doc" /\ reply.final.some
                               THEN reply.final.val ELSE wms_caps_url
              listed == WmsReplyLayers(reply) # <<>>
              errs == IF listed THEN errors ELSE WmsErrorsAfter(errors, ver, reply)
              ctl == WmsLoopControl(ver_idx, listed)
          IN  /\ fetches' = Append(fetches, [proto |-> "WMS", version |-> ver,
                                             url |-> wms_caps_url])
              /\ attempts' = Append(attempts, reply)
              /\ tree' = IF listed THEN WmsItems(reply, used_caps_url) ELSE tree
              /\ errors' = errs
              /\ list_pc' = IF ctl = "next" THEN "wms" ELSE "idle"
              /\ ver_idx' = IF ctl = "next" THEN ver_idx + 1 ELSE 0
              /\ reports' = IF ctl = "report"
                            THEN Append(reports, [title |-> "WMS Error", link |-> wms_link,
                                                  details |-> errs])
                            ELSE reports
    /\ UNCHANGED <<url_text, service_type, listings, notListVars>>

\* load_wmts_layers: one fetch; the tree is filled, or the error is reported.
LoadWmts ==
    /\ list_pc = "wmts"
    /\ \E reply \in WmtsReplies :
          LET wmts_link == Strip(url_text)
              wmts_caps_url == Wmts_build_caps_url(wmts_link)
              used_caps_url == IF reply.kind = "doc" /\ reply.final.some
                               THEN reply.final.val ELSE wmts_caps_url
              layers == IF reply.kind = "doc"
                        THEN wmts_parse_layers(reply.doc.layers,
                                               parse_tile_matrix_sets(reply.doc.tms))
                        ELSE <<>>
              caps_base == Wmts_normalize_service_base(used_caps_url)
              tile_base == Wmts_normalize_service_base(Strip(reply.doc.gettile))
              errs == <<[what |-> IF reply.kind = "doc" THEN "no_layers" ELSE reply.kind]>>
          IN  /\ fetches' = Append(fetches, [proto |-> "WMTS", version |-> <<>>,
                                             url |-> wmts_caps_url])
              /\ attempts' = Append(attempts, reply)
              /\ IF layers # <<>>
                 THEN /\ tree' = WmtsItems(layers, caps_base, tile_base)
                      /\ UNCHANGED <<errors, reports>>
                 ELSE /\ errors' = errs
                      /\ reports' = Append(reports, [title |-> "WMTS Error",
                                                     link |-> wmts_link, details |-> errs])
                      /\ UNCHANGED tree
    /\ list_pc' = "idle"
    /\ UNCHANGED <<url_text, service_type, ver_idx, listings, notListVars>>

\* load_rest_layers: one fetch of the service info; the items are added to
\* the tree, or the error is reported.  An exception the function does not
\* catch (AttributeError for a JSON document that is no object, TypeError
\* for a null layer name) is reported by _on_list_layers.
LoadRest ==
    /\ list_pc = "rest"
    /\ \E reply \in RestReplies :
          LET base_url == clean_base_url(url_text)
              from_url == detect_service_type_from_url(base_url)
              svc_type == IF reply.kind # "info" THEN "UNKNOWN"
                          ELSE IF from_url = "UNKNOWN"
                               THEN detect_service_type_from_payload(reply.info)
                               ELSE from_url
              ok == reply.kind = "info" /\ svc_type # "UNKNOWN" /\ reply.info.layers # <<>>
              why == IF reply.kind # "info" THEN reply.kind
                     ELSE IF svc_type = "UNKNOWN" THEN "unknown_service" ELSE "no_layers"
              items == RestItems(reply.info, svc_type, base_url)
          IN  /\ fetches' = Append(fetches, [proto |-> "REST", version |-> <<>>,
                                             url |-> ensure_json_suffix(
                                                         ensure_json_suffix(base_url))])
              /\ attempts' = Append(attempts, reply)
              /\ IF ok
                 THEN /\ tree' = tree \o items
                      /\ reports' = IF Len(items) = Len(reply.info.layers) THEN reports
                                    ELSE Append(reports, [title |-> "REST Error",
                                                          link |-> base_url,
                                                          details |-> <<[what |-> "type_error"]>>])
                 ELSE /\ reports' = Append(reports,
                                           [title |-> IF reply.kind = "not_object"
                                                      THEN "REST Error"
                                                      ELSE "ArcGIS REST Error",
                                            link |-> base_url,
                                            details |-> <<[what |-> why]>>])
                      /\ UNCHANGED tree
    /\ list_pc' = "idle"
    /\ UNCHANGED <<url_text, service_type, ver_idx, errors, listings, notListVars>>

Init == ListInit /\ UrlIdle /\ ParseIdle /\ MatrixIdle /\ FormatIdle /\ ArcgisIdle /\ ResolveIdle /\ TypeIdle /\ AddIdle /\ GetIdle /\ DialogIdle

Next ==
    \/ OnListLayers
    \/ WmsAttempt
    \/ LoadWmts
    \/ LoadRest

Spec == Init /\ [][Next]_vars

-----------------------------------------------------------------------------
(* Claims about layer listing *)

\* A WMS listing that has come to its end.
WmsListingDone == service_type = "WMS" /\ list_pc = "idle" /\ attempts # <<>>

\* The attempt failed by a network error or an XML parse error.
AttemptFailed(reply) == reply.kind \in {"network_error", "parse_error"}

\* The URL the capability document of attempt i was read from.
UsedCapsUrl(i) ==
    IF attempts[i].final.some THEN attempts[i].final.val ELSE fetches[i].url

\* The base URL the items of attempt i carry: the GetMap endpoint its
\* document advertises or, when it advertises none, the URL the document was
\* read from, without the capability parameters.
BaseUrlOfAttempt(i) ==
    LET href == Strip(attempts[i].getmap)
    IN  Wms_normalize_service_base(IF href # <<>> THEN href ELSE UsedCapsUrl(i))

\* C2: when the 1.3.0 attempt of load_wms_layers fails by a network or parse
\* error and the 1.1.1 attempt yields at least one layer, the listing ends
\* with the tree holding exactly the layers of the 1.1.1 document, in its
\* order, with its names, titles, CRS lists and base URL, and no error
\* dialog is shown.
C2_FallbackListsSecondVersion ==
    (/\ WmsListingDone
     /\ Len(attempts) = 2
     /\ AttemptFailed(attempts[1])
     /\ WmsReplyLayers(attempts[2]) # <<>>)
    => LET layers == parse_layers_from_caps(attempts[2].doc)
       IN  /\ fetches[2].version = V111
           /\ Len(tree) = Len(layers)
           /\ \A i \in 1..Len(tree) :
                 /\ tree[i].text0 = layers[i].name
                 /\ tree[i].text1 = layers[i].title
                 /\ tree[i].payload = layers[i].crs_list
                 /\ tree[i].base_url = BaseUrlOfAttempt(2)
           /\ reports = <<>>
           /\ errors = <<WmsError(V130, attempts[1])>>

\* The fallback happened: 1.3.0 failed to parse, 1.1.1 listed two layers
\* whose document advertises a GetMap endpoint.
C2_Witness ==
    /\ WmsListingDone
    /\ Len(attempts) = 2
    /\ attempts[1].kind = "parse_error"
    /\ Len(tree) = 2
    /\ attempts[2].getmap # <<>>
    /\ tree[1].base_url = <<"h","t","t","p",":","/","/","h","/","m","a","p","?","m","a","p","=","a">>
    /\ reports = <<>>

\* The attempt neither failed nor yielded a layer.
AttemptEmpty(reply) == reply.kind = "doc" /\ WmsReplyLayers(reply) = <<>>

\* C3: when both attempts of load_wms_layers fail (network error, parse
\* error or empty layer list), exactly one error report is issued, it has
\* one message per version in the order 1.3.0, 1.1.1, and the tree holds no
\* layer.
C3_BothFailOneReport ==
    (/\ WmsListingDone
     /\ Len(attempts) = 2
     /\ \A i \in 1..2 : AttemptFailed(attempts[i]) \/ AttemptEmpty(attempts[i]))
    => /\ Len(reports) = 1
       /\ reports[1].title = "WMS Error"
       /\ reports[1].details = <<WmsError(V130, attempts[1]), WmsError(V111, attempts[2])>>
       /\ tree = <<>>

\* Both attempts failed in different ways and the report names both.
C3_Witness ==
    /\ WmsListingDone
    /\ Len(attempts) = 2
    /\ attempts[1].kind = "network_error"
    /\ AttemptEmpty(attempts[2])
    /\ Len(reports) = 1
    /\ Len(reports[1].details) = 2
    /\ tree = <<>>

\* C4: one listing issues exactly one capability fetch for WMTS and for
\* REST; for WMS it issues at most two, 1.3.0 then 1.1.1, the second only
\* after the first attempt failed or yielded no layer, and never after the
\* first yielded a layer.
C4_FetchesPerListing ==
    /\ service_type \in {"WMTS", "REST"} =>
          /\ \A i \in 1..Len(fetches) : fetches[i].proto = service_type
          /\ Len(fetches) = IF list_pc = "idle" THEN 1 ELSE 0
    /\ service_type = "WMS" =>
          /\ Len(fetches) \in 0..2
          /\ Len(attempts) = Len(fetches)
          /\ list_pc = "idle" => Len(fetches) >= 1
          /\ \A i \in 1..Len(fetches) :
                /\ fetches[i].proto = "WMS"
                /\ fetches[i].version = WmsVersions[i]
          /\ Len(fetches) = 2 => WmsReplyLayers(attempts[1]) = <<>>
          /\ (list_pc = "wms" /\ fetches # <<>>) => WmsReplyLayers(attempts[1]) = <<>>
    /\ service_type \notin {"WMS", "WMTS", "REST"} => fetches = <<>>

\* Two listings, the later a WMS listing that stopped after its 1.3.0
\* attempt because it yielded layers.
C4_Witness ==
    /\ listings = 2
    /\ WmsListingDone
    /\ Len(fetches) = 1
    /\ fetches[1].version = V130
    /\ tree # <<>>

-----------------------------------------------------------------------------
(* ArcGIS layer resolution: rest_utils._resolve_layer *)

\* Largest number of layers a service info advertises to _resolve_layer.
MaxRestLayers == 3

\* int(s) of a string of ASCII digits.
StrToInt(s) ==
    LET RECURSIVE Acc(_, _)
        Acc(i, n) == IF i > Len(s) THEN n ELSE Acc(i + 1, 10 * n + HexVal(s[i]))
    IN  Acc(1, 0)

\* (L.get("name") or "").strip().lower() of a layer of the service info.
LayerNameKey(L) == Lower(Strip(IF L.name.some THEN L.name.val ELSE <<>>))

\* The outcomes of _resolve_layer: the tuple returned, or the ValueError raised.
Resolved(L) == [ok |-> TRUE, id |-> L.id, name |-> L.name, msg |-> <<>>]

ResolveError(text) == [ok |-> FALSE, id |-> -1, name |-> None, msg |-> text]

\* A variant of _resolve_layer with one loop over the names, which takes the
\* first layer whose name contains the needle.
resolve_layer_contains_only(layers, ident) ==
    IF layers = <<>>
    THEN ResolveError(<<"S","e","r","v","i","c","e"," ","d","o","e","s"," ","n","o","t"," ","a","d","v","e","r","t","i","s","e"," ","a","n","y"," ","'","l","a","y","e","r","s","'",".">>)
    ELSE IF IsDigit(ident)
    THEN LET lid == StrToInt(ident)
             hit == FirstWhere(layers, LAMBDA L : L.id = lid)
         IN  IF hit.some THEN [Resolved(hit.val) EXCEPT !.id = lid]
             ELSE ResolveError(<<"L","a","y","e","r"," ","i","d"," ","'">> \o ident \o <<"'"," ","n","o","t"," ","f","o","u","n","d",".">>)
    ELSE LET needle == Lower(Strip(ident))
             part == FirstWhere(layers,
                         LAMBDA L : needle # <<>> /\ Contains(LayerNameKey(L), needle))
         IN  IF part.some THEN Resolved(part.val)
             ELSE ResolveError(<<"L","a","y","e","r"," ","'">> \o ident \o <<"'"," ","n","o","t"," ","f","o","u","n","d"," ","b","y"," ","n","a","m","e",".">>)

\* rest_utils._resolve_layer(service_info, layer_identifier), the identifier
\* a string
resolve_layer(layers, ident) ==
    IF layers = <<>>
    THEN ResolveError(<<"S","e","r","v","i","c","e"," ","d","o","e","s"," ","n","o","t"," ","a","d","v","e","r","t","i","s","e"," ","a","n","y"," ","'","l","a","y","e","r","s","'",".">>)
    ELSE IF IsDigit(ident)
    THEN LET lid == StrToInt(ident)
             hit == FirstWhere(layers, LAMBDA L : L.id = lid)
         IN  IF hit.some THEN [Resolved(hit.val) EXCEPT !.id = lid]
             ELSE ResolveError(<<"L","a","y","e","r"," ","i","d"," ","'">> \o ident \o <<"'"," ","n","o","t"," ","f","o","u","n","d",".">>)
    ELSE LET needle == Lower(Strip(ident))
             exact == FirstWhere(layers, LAMBDA L : LayerNameKey(L) = needle)
             part == FirstWhere(layers,
                         LAMBDA L : needle # <<>> /\ Contains(LayerNameKey(L), needle))
         IN  IF exact.some THEN Resolved(exact.val)
             ELSE IF part.some THEN Resolved(part.val)
             ELSE ResolveError(<<"L","a","y","e","r"," ","'">> \o ident \o <<"'"," ","n","o","t"," ","f","o","u","n","d"," ","b","y"," ","n","a","m","e",".">>)

\* The layers of a service info: an id and a name (None: no name).
RestLayerChoices ==
    [id : {1, 2},
     name : {None, Some(<<"M","a","i","n"," ","R","o","a","d","s">>), Some(<<" ","r","o","a","d","s"," ">>), Some(<<"R","i","v","e","r","s">>)}]

\* The identifiers add_rest_layer is called with.
IdentifierChoices ==
    {<<"R","o","a","d","s">>, <<" ","R","O","A","D","S">>, <<"M","a","i","n">>, <<"x">>, <<>>, <<" ">>, <<"1">>, <<"0","2">>, <<"7">>}

ResolveInit ==
    /\ svc_layers \in SeqUpTo(RestLayerChoices, MaxRestLayers)
    /\ layer_identifier \in IdentifierChoices
    /\ resolved = None

\* add_rest_layer resolves the target layer
ResolveLayer ==
    /\ resolved = None
    /\ resolved' = [some |-> TRUE, val |-> resolve_layer(svc_layers, layer_identifier)]
    /\ UNCHANGED <<svc_layers, layer_identifier, notResolveVars>>

ResolveNext == ResolveLayer

InitResolve ==
    /\ ResolveInit
    /\ UrlIdle /\ ParseIdle /\ MatrixIdle /\ FormatIdle /\ ArcgisIdle /\ ListIdle /\ TypeIdle /\ AddIdle /\ GetIdle /\ DialogIdle

SpecResolve == InitResolve /\ [][ResolveNext]_vars

-----------------------------------------------------------------------------
(* Claims about ArcGIS layer resolution (specification SpecResolve) *)

\* The name of a layer, "" when it has none.
NameOf(L) == IF L.name.some THEN L.name.val ELSE <<>>

\* Two names are equal, or the first contains the second, when letter case
\* and surrounding whitespace are ignored.
SameName(a, b) == Lower(Strip(a)) = Lower(Strip(b))

NameContains(a, b) == Contains(Lower(Strip(a)), Lower(Strip(b)))

\* The least element of a set of indices, 0 for the empty set.
Least(S) == IF S = {} THEN 0 ELSE CHOOSE i \in S : \A j \in S : i <= j

\* An error message names the identifier: it quotes it.
MessageNames(msg, ident) == Contains(msg, <<"'">> \o ident \o <<"'">>)

\* The result is the layer at index i of the list, or an error naming the
\* identifier when i = 0.
ResolvesTo(r, layers, ident, i) ==
    IF i = 0
    THEN ~r.ok /\ MessageNames(r.msg, ident)
    ELSE r.ok /\ r.id = layers[i].id /\ r.name = layers[i].name

\* The index of the layer the identifier stands for: by id for a numeric
\* identifier; else by equal name, and when no name is equal, by containing
\* name.
IndexById(layers, ident) ==
    Least({i \in 1..Len(layers) : layers[i].id = StrToInt(ident)})

IndexByEqualName(layers, ident) ==
    Least({i \in 1..Len(layers) : SameName(NameOf(layers[i]), ident)})

IndexByContainingName(layers, ident) ==
    Least({i \in 1..Len(layers) : NameContains(NameOf(layers[i]), ident)})

\* C11 as stated: for every layer list and identifier _resolve_layer returns
\* the layer with the identifier's id, or the first layer with an equal name,
\* or else the first with a containing name, and raises an error naming the
\* identifier when nothing matches.
C11_ResolveAsStated ==
    resolved.some =>
        LET layers == svc_layers
            ident == layer_identifier
            byName == IF IndexByEqualName(layers, ident) # 0
                      THEN IndexByEqualName(layers, ident)
                      ELSE IndexByContainingName(layers, ident)
        IN  ResolvesTo(resolved.val, layers, ident,
                       IF IsDigit(ident) THEN IndexById(layers, ident) ELSE byName)

\* C11 amended: the same for a layer list that is not empty, where a blank
\* name is never matched by containment; for an empty layer list the error
\* raised says that the service advertises no layers.
C11_ResolveLayer ==
    resolved.some =>
        LET layers == svc_layers
            ident == layer_identifier
            byName == IF IndexByEqualName(layers, ident) # 0
                      THEN IndexByEqualName(layers, ident)
                      ELSE IF Strip(ident) = <<>> THEN 0
                      ELSE IndexByContainingName(layers, ident)
        IN  IF layers = <<>>
            THEN /\ ~resolved.val.ok
                 /\ Contains(resolved.val.msg, <<"d","o","e","s"," ","n","o","t"," ","a","d","v","e","r","t","i","s","e"," ","a","n","y">>)
            ELSE ResolvesTo(resolved.val, layers, ident,
                            IF IsDigit(ident) THEN IndexById(layers, ident) ELSE byName)

\* C11 witness: "Roads" is asked of a service whose first layer is "Main
\* Roads" and whose second is " roads "; the second, equal ignoring case, is
\* returned rather than the first, which only contains the name.
C11_Witness ==
    /\ resolved.some
    /\ layer_identifier = <<"R","o","a","d","s">>
    /\ Len(svc_layers) = 2
    /\ svc_layers[1] = [id |-> 2, name |-> Some(<<"M","a","i","n"," ","R","o","a","d","s">>)]
    /\ svc_layers[2] = [id |-> 1, name |-> Some(<<" ","r","o","a","d","s"," ">>)]
    /\ resolved.val.ok
    /\ resolved.val.id = 1

-----------------------------------------------------------------------------
(* Service type resolution: main.detect_service_type and
   EuropeOrthoWMSPlugin._current_service_type (specification SpecType) *)

\* The URL texts a type is resolved for.
TypeUrls ==
    {<<>>, <<"h","t","t","p",":","/","/","h","/","o","w","s">>, <<"h","t","t","p","s",":","/","/","h","/","a","r","c","g","i","s","/","M","a","p","S","e","r","v","e","r">>,
     <<"h","t","t","p",":","/","/","h","/","a","/","F","E","A","T","U","R","E","s","e","r","v","e","r","/","0">>, <<"h","t","t","p",":","/","/","h","/","r","e","s","t","/","s","e","r","v","i","c","e","s","/","x">>,
     <<"h","t","t","p",":","/","/","h","/","o","w","s","?","S","E","R","V","I","C","E","=","W","M","T","S">>, <<"h","t","t","p",":","/","/","h","/","W","M","T","S","/","1",".","0",".","0","/","x">>,
     <<"h","t","t","p",":","/","/","h","/","t","/","{","T","i","l","e","M","a","t","r","i","x","}","/","{","T","i","l","e","R","o","w","}",".","p","n","g">>, <<"h","t","t","p",":","/","/","h","/","t","?","T","i","l","e","M","a","t","r","i","x","S","e","t","=","g">>,
     <<"h","t","t","p",":","/","/","h","/","r","e","s","t","/","s","e","r","v","i","c","e","s","/","x","/","M","a","p","S","e","r","v","e","r","/","W","M","T","S","/","?","s","e","r","v","i","c","e","=","w","m","t","s">>,
     <<"h","t","t","p",":","/","/","h","/","m","a","p","s","e","r","v","?","m","a","p","=","/","s","r","v","/","m","a","p","s","e","r","v","e","r","/","a",".","m","a","p","&","s","e","r","v","i","c","e","=","W","M","S">>,
     <<"h","t","t","p",":","/","/","w","m","t","s",".","h","/","s","v","c","=","w","m","t","s">>}

\* The texts a protocol selector can hold.
TypeSelectors ==
    {None, Some(<<>>), Some(<<" ","w","m","t","s">>), Some(<<"W","M","S">>), Some(<<"a","r","c","g","i","s"," ","r","e","s","t">>),
     Some(<<"A","r","c","G","I","S","_","R","E","S","T">>), Some(<<"W","F","S">>)}

\* The types of the catalog entries: CATALOG of catalog.py declares WMS,
\* WMTS and REST.
TypeEntries == {None, Some(T_WMS), Some(T_WMTS), Some(T_REST)}

TypeInit ==
    /\ type_url \in TypeUrls
    /\ type_selector \in TypeSelectors
    /\ type_entry \in TypeEntries
    /\ detected = "none"
    /\ current_type = "none"

\* detect_service_type(url)
DetectServiceType ==
    /\ detected = "none"
    /\ detected' = detect_service_type(type_url)
    /\ UNCHANGED <<type_url, type_selector, type_entry, current_type, notTypeVars>>

\* _current_service_type(url), as _on_list_layers and _on_add_selected call it
CurrentServiceType ==
    /\ current_type = "none"
    /\ current_type' = current_service_type(type_selector, type_entry, type_url)
    /\ UNCHANGED <<type_url, type_selector, type_entry, detected, notTypeVars>>

TypeNext == DetectServiceType \/ CurrentServiceType

InitType ==
    /\ TypeInit
    /\ UrlIdle /\ ParseIdle /\ MatrixIdle /\ FormatIdle /\ ArcgisIdle /\ ListIdle
    /\ ResolveIdle /\ AddIdle /\ GetIdle /\ DialogIdle

SpecType == InitType /\ [][TypeNext]_vars

\* The protocol a selector text stands for: its text without surrounding
\* whitespace, in upper case, when that is one of the five accepted tokens
\* ("none" otherwise); a token containing REST stands for REST.
AcceptedSelectors == {<<"W","M","S">>, <<"W","M","T","S">>, <<"R","E","S","T">>, <<"A","R","C","G","I","S"," ","R","E","S","T">>, <<"A","R","C","G","I","S","_","R","E","S","T">>}

SelectedProtocol(selector) ==
    IF ~selector.some \/ Upper(Strip(selector.val)) \notin AcceptedSelectors
    THEN "none"
    ELSE IF Contains(Upper(selector.val), <<"R","E","S","T">>) THEN "REST"
    ELSE IF Upper(Strip(selector.val)) = <<"W","M","S">> THEN "WMS" ELSE "WMTS"

\* C12: the service type is the explicit selection when there is an accepted
\* one; otherwise the type of the catalog entry when there is an entry; and
\* the result of the URL heuristic only when there is neither.
C12_ServiceTypePriority ==
    current_type # "none" =>
        /\ SelectedProtocol(type_selector) # "none"
              => current_type = SelectedProtocol(type_selector)
        /\ (SelectedProtocol(type_selector) = "none" /\ type_entry.some)
              => current_type = TypeName(Upper(type_entry.val))
        /\ (SelectedProtocol(type_selector) = "none" /\ ~type_entry.some)
              => current_type = detect_service_type(type_url)

\* C12 witness: the selector says "arcgis rest", the catalog entry says WMS
\* and the URL looks like WMTS; the type is REST.
C12_Witness ==
    /\ current_type = "REST"
    /\ type_selector = Some(<<"a","r","c","g","i","s"," ","r","e","s","t">>)
    /\ type_entry = Some(T_WMS)
    /\ type_url = <<"h","t","t","p",":","/","/","h","/","o","w","s","?","S","E","R","V","I","C","E","=","W","M","T","S">>

\* The marks detect_service_type looks for.
RestMarks == {<<"/","m","a","p","s","e","r","v","e","r">>, <<"/","f","e","a","t","u","r","e","s","e","r","v","e","r">>, <<"/","r","e","s","t","/","s","e","r","v","i","c","e","s","/">>}

WmtsQueryMarks == {<<"s","e","r","v","i","c","e","=","w","m","t","s">>, <<"{","t","i","l","e","m","a","t","r","i","x","}">>, <<"t","i","l","e","m","a","t","r","i","x","s","e","t","=">>}

WmtsPathMarks == {<<"/","w","m","t","s","/">>}

ContainsAny(s, marks) == \E m \in marks : Contains(Lower(s), m)

\* C13 as stated: REST when the path contains a REST mark; otherwise WMTS
\* when the query contains service=wmts, {tilematrix} or tilematrixset=, or
\* the path contains /wmts/; otherwise WMS; an empty URL gives WMS.
C13_DetectAsStated ==
    detected # "none" =>
        LET p == UrlSplit(type_url)
        IN  detected =
              IF type_url = <<>> THEN "WMS"
              ELSE IF ContainsAny(p.path, RestMarks) THEN "REST"
              ELSE IF ContainsAny(p.query, WmtsQueryMarks)
                      \/ ContainsAny(p.path, WmtsPathMarks) THEN "WMTS"
              ELSE "WMS"

\* C13 amended: the marks are looked for anywhere in the URL, not in its
\* path or its query only.
C13_DetectServiceType ==
    detected # "none" =>
        detected =
          IF type_url = <<>> THEN "WMS"
          ELSE IF ContainsAny(type_url, RestMarks) THEN "REST"
          ELSE IF ContainsAny(type_url, WmtsQueryMarks \cup WmtsPathMarks) THEN "WMTS"
          ELSE "WMS"

\* C13 witness: a URL with a REST mark and two WMTS marks is detected as REST.
C13_Witness ==
    /\ detected = "REST"
    /\ type_url = <<"h","t","t","p",":","/","/","h","/","r","e","s","t","/","s","e","r","v","i","c","e","s","/","x","/","M","a","p","S","e","r","v","e","r","/","W","M","T","S","/","?","s","e","r","v","i","c","e","=","w","m","t","s">>

-----------------------------------------------------------------------------
(* The layer builders: add_wms_layer, add_wmts_layer, add_rest_layer *)

\* The line break of the message texts.
NL == <<"\n">>

\* Op applied to the value v: the body of Op names v, as an assignment to a
\* local does.
With(v, Op(_)) == Op(v)

\* An optional string that Python takes for true: neither None nor "".
Truthy(o) == o.some /\ o.val # <<>>

\* Python's `a or b` for optional strings.
OrElse(a, b) == IF Truthy(a) THEN a ELSE b

\* What a builder works out before it turns to the rendering sink: an error
\* to report, or the descriptors to probe in order, each with the base URL
\* it was built from.
PlanError(text) == [ok |-> FALSE, err |-> text, uris |-> <<>>, bases |-> <<>>]

Plan(uris, bases) == [ok |-> TRUE, err |-> <<>>, uris |-> uris, bases |-> bases]

\* add_wms_layer: the one descriptor it probes.
wms_plan(layer_name, link, crs, img_format) ==
    With(Strip(link), LAMBDA wms_link :
        Plan(<<Join(<< <<"c","o","n","t","e","x","t","u","a","l","W","M","S","L","e","g","e","n","d","=","0">>, <<"c","r","s","=">> \o crs, <<"d","p","i","M","o","d","e","=","7">>,
                       <<"f","o","r","m","a","t","=">> \o img_format, <<"l","a","y","e","r","s","=">> \o layer_name,
                       <<"s","t","y","l","e","s","=">>, <<"u","r","l","=">> \o wms_link >>, <<"&">>)>>,
             <<wms_link>>))

\* The text of the dialog add_wms_layer shows when the sink rejects the layer.
wms_failure_text(layer_name, link, crs, img_format) ==
    <<"F","a","i","l","e","d"," ","t","o"," ","a","d","d"," ","W","M","S"," ","l","a","y","e","r",":">> \o NL \o layer_name \o NL \o <<"f","r","o","m",":">> \o NL
    \o Strip(link) \o NL \o NL \o <<"C","R","S",":"," ">> \o crs \o NL \o <<"F","o","r","m","a","t",":"," ">>
    \o img_format

\* wmts_utils._to_qgis_authid
to_qgis_authid(crs_str) ==
    IF ~Truthy(crs_str) THEN None
    ELSE With(Strip(crs_str.val), LAMBDA s :
             IF StartsWith(Upper(s), <<"E","P","S","G",":">>) THEN Some(Upper(s))
             ELSE IF ~Contains(Lower(s), <<"e","p","s","g">>) THEN None
             ELSE With(LastDigitField(Split(Replace(s, <<":",":">>, <<":">>), <<":">>)),
                       LAMBDA code : IF code # <<>> THEN Some(<<"E","P","S","G",":">> \o code[1])
                                     ELSE None))

\* The layer add_wmts_layer picks: by identifier, then by identifier in any
\* letter case, then by title in any letter case.
wmts_match(layers, identifier) ==
    With(Lower(Strip(identifier)), LAMBDA low :
        With(FirstWhere(layers, LAMBDA L : L.identifier = identifier), LAMBDA exact :
            IF exact.some THEN exact
            ELSE With(FirstWhere(layers, LAMBDA L : Lower(L.identifier) = low),
                      LAMBDA ci :
                          IF ci.some THEN ci
                          ELSE FirstWhere(layers,
                                          LAMBDA L : Lower(Strip(L.title)) = low))))

\* What add_wmts_layer settles for the matched layer: the matrix set, the
\* image format, the CRS of the matrix set and the style.
wmts_choice(match, matrix_set, fmt) ==
    With(OrElse(OrElse(matrix_set, match.default_matrix_set),
                IF match.matrix_sets # <<>> THEN Some(match.matrix_sets[1].id) ELSE None),
         LAMBDA chosen_ms :
             [ms    |-> chosen_ms,
              fmt   |-> OrElse(fmt, OrElse(match.default_format,
                                           prefer_format(match.formats))),
              crs   |-> With(FirstWhere(match.matrix_sets,
                                        LAMBDA m : Some(m.id) = chosen_ms),
                             LAMBDA ms : IF ms.some THEN to_qgis_authid(ms.val.crs)
                                         ELSE None),
              style |-> OrElse(match.default_style,
                               Some(IF match.styles # <<>> THEN match.styles[1]
                                    ELSE <<"d","e","f","a","u","l","t">>)).val])

\* A variant of the candidate list with the GetTile base ahead of the
\* capability base.
wmts_base_candidates_tile_first(caps_base, tile_base) ==
    SelectSeq(<<tile_base, caps_base>>, LAMBDA b : b # <<>>)

\* The base URLs add_wmts_layer tries, in its order: the base of the
\* capability URL, then the base of the advertised GetTile URL.
wmts_base_candidates(caps_base, tile_base) ==
    SelectSeq(<<caps_base, tile_base>>, LAMBDA b : b # <<>>)

\* The parameters every descriptor of add_wmts_layer starts with.
wmts_common_params(match, choice) ==
    << <<"c","o","n","t","e","x","t","u","a","l","W","M","S","L","e","g","e","n","d","=","0">> >>
    \o (IF Truthy(choice.crs) THEN << <<"c","r","s","=">> \o choice.crs.val >> ELSE <<>>)
    \o << <<"l","a","y","e","r","s","=">> \o match.identifier, <<"s","t","y","l","e","s","=">> \o choice.style,
          <<"f","o","r","m","a","t","=">> \o choice.fmt.val, <<"t","i","l","e","M","a","t","r","i","x","S","e","t","=">> \o choice.ms.val >>

\* The descriptors of add_wmts_layer, one per base.
wmts_uris(common_params, bases) ==
    [i \in 1..Len(bases) |->
        Join(Append(common_params, <<"u","r","l","=">> \o bases[i]), <<"&">>)]

\* add_wmts_layer from the parsed capability document to the descriptors:
\* matrix_set and fmt are optional strings.
wmts_plan(doc, used_caps_url, identifier, matrix_set, fmt) ==
    With(wmts_match(wmts_parse_layers(doc.layers, parse_tile_matrix_sets(doc.tms)),
                    identifier),
         LAMBDA found :
             IF ~found.some
             THEN PlanError(<<"W","M","T","S"," ","l","a","y","e","r"," ","'">> \o identifier
                            \o <<"'"," ","n","o","t"," ","f","o","u","n","d"," ","i","n"," ","c","a","p","a","b","i","l","i","t","i","e","s",".">>)
             ELSE With(wmts_choice(found.val, matrix_set, fmt), LAMBDA choice :
                 IF ~Truthy(choice.ms)
                 THEN PlanError(<<"W","M","T","S"," ","l","a","y","e","r"," ","'">> \o found.val.identifier
                                \o <<"'"," ","h","a","s"," ","n","o"," ","T","i","l","e","M","a","t","r","i","x","S","e","t",".">>)
                 ELSE IF ~Truthy(choice.fmt)
                 THEN PlanError(<<"W","M","T","S"," ","l","a","y","e","r"," ","'">> \o found.val.identifier
                                \o <<"'"," ","h","a","s"," ","n","o"," ","a","d","v","e","r","t","i","s","e","d"," ","i","m","a","g","e"," ","f","o","r","m","a","t","s",".">>)
                 ELSE With(wmts_base_candidates(
                               Wmts_normalize_service_base(used_caps_url),
                               Wmts_normalize_service_base(Strip(doc.gettile))),
                           LAMBDA bases :
                               Plan(wmts_uris(wmts_common_params(found.val, choice),
                                              bases),
                                    bases))))

\* The error add_wmts_layer raises when the sink has accepted no candidate:
\* last_err, set by the last candidate probed.
wmts_rejected_error(bases) ==
    IF bases = <<>> THEN <<"C","o","u","l","d"," ","n","o","t"," ","c","r","e","a","t","e"," ","W","M","T","S"," ","l","a","y","e","r"," ","w","i","t","h"," ","a","n","y"," ","b","a","s","e"," ","U","R","L",".">>
    ELSE <<"I","n","v","a","l","i","d"," ","w","i","t","h"," ","b","a","s","e",":"," ">> \o bases[Len(bases)]

\* The text of the dialog add_wmts_layer shows for an error e.
wmts_failure_text(identifier, wmts_link, e) ==
    <<"F","a","i","l","e","d"," ","t","o"," ","a","d","d"," ","W","M","T","S"," ","l","a","y","e","r",":">> \o NL \o identifier \o NL \o <<"f","r","o","m",":">> \o NL
    \o wmts_link \o NL \o NL \o e

\* rest_utils._strip_trailing_slash
strip_trailing_slash(u) ==
    IF EndsWith(u, <<"/">>) THEN Take(u, Len(u) - 1) ELSE u

\* The kind of service add_rest_layer takes the service for: by its URL,
\* else by its info.
rest_svc_type(info, base_url) ==
    With(detect_service_type_from_url(base_url), LAMBDA from_url :
        IF from_url = "UNKNOWN" THEN detect_service_type_from_payload(info)
        ELSE from_url)

\* A variant of the candidate lists that tries the MapServer descriptors
\* from the least specific to the most specific.
rest_candidates_url_only_first(svc_type, root, target_id, image_fmt) ==
    IF svc_type = "FEATURE"
    THEN Plan(<< <<"u","r","l","=">> \o root \o <<"/">> \o target_id,
                 root \o <<"/">> \o target_id >>,
              <<root \o <<"/">> \o target_id, root \o <<"/">> \o target_id>>)
    ELSE Plan(<< <<"u","r","l","=">> \o root,
                 Join(<< <<"l","a","y","e","r","s","=","s","h","o","w",":">> \o target_id,
                         <<"u","r","l","=">> \o root>>, <<"&">>),
                 Join(<< <<"l","a","y","e","r","s","=","s","h","o","w",":">> \o target_id,
                         <<"f","o","r","m","a","t","=">> \o image_fmt,
                         <<"u","r","l","=">> \o root>>, <<"&">>) >>,
              <<root, root, root>>)

\* The descriptors add_rest_layer probes for the layer target_id of a
\* service of kind svc_type at root (the base URL without trailing slash).
rest_candidates(svc_type, root, target_id, image_fmt) ==
    IF svc_type = "FEATURE"
    THEN With(root \o <<"/">> \o target_id, LAMBDA lyr_url :
             Plan(<< <<"u","r","l","=">> \o lyr_url, lyr_url >>, <<lyr_url, lyr_url>>))
    ELSE With(<<"l","a","y","e","r","s","=","s","h","o","w",":">> \o target_id, LAMBDA show :
             Plan(<< Join(<<show, <<"f","o","r","m","a","t","=">> \o image_fmt, <<"u","r","l","=">> \o root>>, <<"&">>),
                     Join(<<show, <<"u","r","l","=">> \o root>>, <<"&">>),
                     <<"u","r","l","=">> \o root >>,
                  <<root, root, root>>))

\* add_rest_layer from the service info to the descriptors it probes.
rest_plan(info, svc_type, base_url, identifier, fmt) ==
    With(resolve_layer(info.layers, identifier), LAMBDA target :
        IF ~target.ok THEN PlanError(target.msg)
        ELSE IF svc_type \notin {"FEATURE", "MAP"}
        THEN PlanError(<<"U","n","s","u","p","p","o","r","t","e","d"," ","o","r"," ","u","n","k","n","o","w","n"," ","A","r","c","G","I","S"," ","s","e","r","v","i","c","e",".">>)
        ELSE rest_candidates(
                 svc_type, strip_trailing_slash(base_url), IntStr(target.id),
                 IF svc_type = "MAP"
                 THEN prefer_arcgis_format(
                          fmt, parse_supported_formats(info.supportedImageFormatTypes))
                 ELSE <<>>))

\* The provider add_rest_layer hands its descriptors to.
rest_provider(svc_type) ==
    IF svc_type = "FEATURE" THEN "arcgisfeatureserver" ELSE "arcgismapserver"

\* The error add_rest_layer raises when the sink has accepted no candidate.
rest_rejected_error(provider) ==
    IF provider = "arcgisfeatureserver"
    THEN <<"F","a","i","l","e","d"," ","t","o"," ","c","r","e","a","t","e"," ","F","e","a","t","u","r","e","S","e","r","v","e","r"," ","l","a","y","e","r","."," ","U","R","L"," ","m","a","y"," ","b","e"," ","i","n","a","c","c","e","s","s","i","b","l","e"," ","o","r"," ","p","r","o","v","i","d","e","r"," ","m","i","s","s","i","n","g",".">>
    ELSE <<"F","a","i","l","e","d"," ","t","o"," ","c","r","e","a","t","e"," ","M","a","p","S","e","r","v","e","r"," ","l","a","y","e","r"," ","i","n"," ","Q","G","I","S","."," ","T","h","e"," ","s","e","r","v","e","r"," ","m","a","y"," ","b","e"," ","p","r","i","v","a","t","e"," ","o","r"," ","t","h","e"," ","p","r","o","v","i","d","e","r"," ","i","s"," ","u","n","a","v","a","i","l","a","b","l","e",".">>

\* The text of the dialog add_rest_layer shows for an error e.
rest_failure_text(base_url, e) ==
    <<"F","a","i","l","e","d"," ","t","o"," ","a","d","d"," ","A","r","c","G","I","S"," ","R","E","S","T"," ","l","a","y","e","r"," ","f","r","o","m",":">> \o NL \o base_url \o NL \o NL \o e

-----------------------------------------------------------------------------
(* Add selected: EuropeOrthoWMSPlugin._on_add_selected and the builders it
   calls, against a rendering sink that accepts or rejects each descriptor *)

\* Largest number of checked items in one "add selected" action.
MaxChecked == 2

\* Largest number of descriptors one builder probes.
MaxCandidates == 3

\* One thing the action or a builder does.  ev is "entry" (the loop of the
\* action takes the entry named text), "call" (a builder is entered: who, for
\* the layer text), "fetch" (text is the URL), "probe" (the
\* sink is asked about the descriptor text built from base, and answers ok),
\* "filter" (setSubsetString is called with text on the accepted layer, and
\* ok says whether it applied it), "add" (the layer of descriptor text goes
\* into the project) or "report" (a dialog titled who with message text).
Ev(ev, who, text, base, ok) ==
    [ev |-> ev, who |-> who, text |-> text, base |-> base, ok |-> ok]

\* The probes of a plan against a sink that accepts the k-th descriptor it
\* is asked about (none when k exceeds their number), and the add after an
\* acceptance: the builders stop probing at the first acceptance.
ProbeEvents(plan, provider, k) ==
    LET n == Len(plan.uris)
        last == IF k <= n THEN k ELSE n
    IN  [j \in 1..last |-> Ev("probe", provider, plan.uris[j], plan.bases[j], j = k)]
        \o (IF k <= n THEN <<Ev("add", provider, plan.uris[k], plan.bases[k], TRUE)>>
            ELSE <<>>)

\* What one call of a builder does and whether an exception leaves it:
\* [events, raised].
Ran(events) == [events |-> events, raised |-> None]

Raised(events, text) == [events |-> events, raised |-> Some(text)]

\* wms_utils.add_wms_layer
add_wms_layer(layer_name, wms_link, crs, img_format, k) ==
    With(wms_plan(layer_name, wms_link, crs, img_format), LAMBDA plan :
        Ran(<<Ev("call", "add_wms_layer", layer_name, <<>>, TRUE)>>
            \o ProbeEvents(plan, "wms", k)
            \o (IF k <= Len(plan.uris) THEN <<>>
                ELSE <<Ev("report", "Error",
                          wms_failure_text(layer_name, wms_link, crs, img_format),
                          <<>>, FALSE)>>)))

\* The message of the RuntimeError http_get_bytes raises.
NetworkError(u) == <<"N","e","t","w","o","r","k"," ","e","r","r","o","r"," ","f","o","r"," ">> \o u \o <<":"," ","C","o","n","n","e","c","t","i","o","n"," ","r","e","f","u","s","e","d">>

\* The message of the ParseError ElementTree raises.
XmlParseError == <<"s","y","n","t","a","x"," ","e","r","r","o","r",":"," ","l","i","n","e"," ","1",","," ","c","o","l","u","m","n"," ","0">>

\* add_wmts_layer after a capability document came back: the probes, and
\* the dialog unless the sink accepted a descriptor.
wmts_build(identifier, wmts_link, plan, k) ==
    (IF plan.ok THEN ProbeEvents(plan, "wms", k) ELSE <<>>)
    \o (IF plan.ok /\ k <= Len(plan.uris) THEN <<>>
        ELSE <<Ev("report", "WMTS Error",
                  wmts_failure_text(identifier, wmts_link,
                                    IF ~plan.ok THEN plan.err
                                    ELSE wmts_rejected_error(plan.bases)),
                  <<>>, FALSE)>>)

\* wmts_utils.add_wmts_layer
add_wmts_layer(identifier, link, matrix_set, fmt, reply, k) ==
    With(Strip(link), LAMBDA wmts_link :
    With(Wmts_build_caps_url(wmts_link), LAMBDA wmts_caps_url :
        Ran(<<Ev("call", "add_wmts_layer", identifier, <<>>, TRUE),
              Ev("fetch", "add_wmts_layer", wmts_caps_url, <<>>, reply.kind = "doc")>>
            \o (IF reply.kind = "doc"
                THEN wmts_build(identifier, wmts_link,
                                wmts_plan(reply.doc,
                                          IF reply.final.some THEN reply.final.val
                                          ELSE wmts_caps_url,
                                          identifier, matrix_set, fmt),
                                k)
                ELSE <<Ev("report", "WMTS Error",
                          wmts_failure_text(identifier, wmts_link,
                                            IF reply.kind = "network_error"
                                            THEN NetworkError(wmts_caps_url)
                                            ELSE XmlParseError),
                          <<>>, FALSE)>>))))

\* A variant of the filter step in which a filter that cannot be applied
\* keeps the layer out of the project.
subset_string_or_drop(events, provider, where, subset) ==
    IF provider = "arcgisfeatureserver" /\ Truthy(where)
       /\ events # <<>> /\ events[Len(events)].ev = "add"
    THEN SubSeq(events, 1, Len(events) - 1)
         \o <<Ev("filter", provider, where.val, events[Len(events)].base,
                 subset = "applied")>>
         \o (IF subset = "applied" THEN <<events[Len(events)]>> ELSE <<>>)
    ELSE events

\* The attribute filter of the FeatureServer branch: when where is given,
\* setSubsetString is called on the accepted layer before it is added;
\* subset says what the call does ("applied", "refused": it returns False,
\* "raised": it raises, and the exception is passed over).
subset_string(events, provider, where, subset) ==
    IF provider = "arcgisfeatureserver" /\ Truthy(where)
       /\ events # <<>> /\ events[Len(events)].ev = "add"
    THEN SubSeq(events, 1, Len(events) - 1)
         \o <<Ev("filter", provider, where.val, events[Len(events)].base,
                 subset = "applied")>>
         \o <<events[Len(events)]>>
    ELSE events

\* add_rest_layer after the service info came back: the probes, and the
\* dialog unless the sink accepted a descriptor.
rest_build(base_url, provider, plan, where, subset, k) ==
    (IF plan.ok THEN subset_string(ProbeEvents(plan, provider, k), provider, where, subset)
     ELSE <<>>)
    \o (IF plan.ok /\ k <= Len(plan.uris) THEN <<>>
        ELSE <<Ev("report", "ArcGIS REST Error",
                  rest_failure_text(base_url,
                                    IF ~plan.ok THEN plan.err
                                    ELSE rest_rejected_error(provider)),
                  <<>>, FALSE)>>)

\* add_rest_layer from the service info on.
rest_add(info, svc_type, base_url, identifier, fmt, where, subset, k) ==
    rest_build(base_url, rest_provider(svc_type),
               rest_plan(info, svc_type, base_url, identifier, fmt), where, subset, k)

\* What add_rest_layer does once the fetch of url has come back with reply.
rest_fetched(base_url, json_url, identifier, fmt, where, subset, reply, k) ==
    <<Ev("call", "add_rest_layer", identifier, <<>>, TRUE),
      Ev("fetch", "add_rest_layer", json_url, <<>>, reply.kind = "info")>>
    \o (IF reply.kind = "info"
        THEN rest_add(reply.info, rest_svc_type(reply.info, base_url), base_url,
                      identifier, fmt, where, subset, k)
        ELSE IF reply.kind = "not_object" THEN <<>>
        ELSE <<Ev("report", "ArcGIS REST Error",
                  rest_failure_text(base_url,
                                    IF reply.kind = "request_error"
                                    THEN NetworkError(json_url)
                                    ELSE <<"E","x","p","e","c","t","i","n","g"," ","v","a","l","u","e",":"," ","l","i","n","e"," ","1"," ","c","o","l","u","m","n"," ","1"," ","(","c","h","a","r"," ","0",")">>),
                  <<>>, FALSE)>>)

\* rest_utils.add_rest_layer: a JSON document that is no object makes
\* info.get raise AttributeError, which the function does not catch.
add_rest_layer(service_url, identifier, fmt, where, subset, reply, k) ==
    With(clean_base_url(service_url), LAMBDA base_url :
        [events |-> rest_fetched(base_url,
                                 ensure_json_suffix(ensure_json_suffix(base_url)),
                                 identifier, fmt, where, subset, reply, k),
         raised |-> IF reply.kind = "not_object"
                    THEN Some(<<"'","l","i","s","t","'"," ","o","b","j","e","c","t"," ","h","a","s"," ","n","o"," ","a","t","t","r","i","b","u","t","e"," ","'","g","e","t","'">>)
                    ELSE None])

\* The URL text of the dialog during the action.
AddUrlText == <<"h","t","t","p",":","/","/","h","/","o","w","s">>

\* The type of the catalog entry current during the action (the dialog
\* offers no protocol selector): the three the catalog declares and one
\* the action has no builder for.
AddEntryTypes == {Some(T_WMS), Some(T_WMTS), Some(T_REST), Some(<<"w","f","s">>)}

\* The texts of the dialog's CRS label and format box.
CrsTexts == {<<>>, <<" ","E","P","S","G",":","3","8","5","7"," ">>}

FormatTexts == {<<>>, <<"i","m","a","g","e","/","p","n","g">>}

\* An entry of the action: the text, the stored base URL and the stored
\* payload (None: no dict) of a checked item.
Entry(name, base_url, payload) ==
    [name |-> name, base_url |-> base_url, payload |-> payload]

WmtsPayload(ms, f) == Some([default_matrix_set |-> ms, default_format |-> f])

\* The items that can be checked when the action starts, by service type.
CheckedChoices(st) ==
    CASE st = "WMS" ->
           {Entry(<<"A">>, <<"h","t","t","p",":","/","/","h","/","o","w","s">>, None),
            Entry(<<"B">>, <<" ","h","t","t","p",":","/","/","h","/","m","a","p","?","m","a","p","=","a">>, None)}
      [] st = "WMTS" ->
           {Entry(<<"o","r","t","h","o">>, <<"h","t","t","p","s",":","/","/","h",".","x","/","a","/","w","m","t","s","/">>,
                  WmtsPayload(Some(<<"G","o","o","g","l","e","M","a","p","s","C","o","m","p","a","t","i","b","l","e">>), Some(<<"i","m","a","g","e","/","j","p","e","g">>))),
            Entry(<<"O","r","t","h","o">>, <<"h","t","t","p","s",":","/","/","h",".","x","/","a","/","w","m","t","s","/">>, WmtsPayload(None, None)),
            Entry(<<"g","o","n","e">>, <<"h","t","t","p","s",":","/","/","h",".","x","/","a","/","w","m","t","s","/">>, None)}
      [] st = "REST" ->
           {Entry(<<"R","o","a","d","s">>, <<"h","t","t","p",":","/","/","h","/","r","e","s","t","/","s","e","r","v","i","c","e","s","/","o","/","M","a","p","S","e","r","v","e","r">>, None),
            Entry(<<"p","a","r","c","e","l">>, <<"h","t","t","p",":","/","/","h","/","o","/","F","e","a","t","u","r","e","S","e","r","v","e","r","/","?","f","=","j","s","o","n">>, None),
            Entry(<<"7">>, <<"h","t","t","p",":","/","/","h","/","r","e","s","t","/","s","e","r","v","i","c","e","s","/","o">>, None)}
      [] OTHER -> {Entry(<<"A">>, <<"h","t","t","p",":","/","/","h","/","o","w","s">>, None)}

\* The events of one builder call, marked with the index i of the entry the
\* loop is at (0: outside the loop).
Tag(events, i) ==
    [j \in 1..Len(events) |->
        [i |-> i, ev |-> events[j].ev, who |-> events[j].who,
         text |-> events[j].text, base |-> events[j].base, ok |-> events[j].ok]]

\* The layers a builder call put into the project.
Added(events) ==
    LET adds == SelectSeq(events, LAMBDA e : e.ev = "add")
    IN  [j \in 1..Len(adds) |-> [uri |-> adds[j].text, provider |-> adds[j].who]]

\* The body of the loop of _on_add_selected for one entry: the builder of
\* the service type, given the reply to its fetch and the sink's answers.
call_builder(st, e, crs, fmt, reply, k) ==
    CASE st = "WMS" -> add_wms_layer(e.name, e.base_url, crs, fmt, k)
      [] st = "WMTS" ->
           add_wmts_layer(e.name, e.base_url,
                          IF e.payload.some /\ Truthy(e.payload.val.default_matrix_set)
                          THEN e.payload.val.default_matrix_set ELSE None,
                          IF e.payload.some /\ Truthy(e.payload.val.default_format)
                          THEN e.payload.val.default_format ELSE Some(fmt),
                          reply, k)
      [] st = "REST" -> add_rest_layer(e.base_url, e.name, Some(fmt), None, "applied",
                                       reply, k)
      [] OTHER -> Raised(<<>>, <<"U","n","k","n","o","w","n"," ","s","e","r","v","i","c","e"," ","t","y","p","e",":"," ","O","T","H","E","R">>)

\* The replies the fetch of add_wmts_layer can come back with: those of the
\* listing, and a document that advertises no GetTile URL.
AddWmtsReplies ==
    WmtsReplies \cup
    {[kind |-> "doc", doc |-> [d EXCEPT !.gettile = <<>>], final |-> None] :
        d \in {s \in ServedWmts : s.layers # <<>>}}

\* The replies the fetch of the builder of a service type can come back with.
BuilderReplies(st) ==
    CASE st = "WMTS" -> AddWmtsReplies
      [] st = "REST" -> RestReplies
      [] OTHER -> {[kind |-> "none"]}

\* What the loop appends to errors for an entry: nothing unless the call
\* raised.
loop_errors(e, run) ==
    IF run.raised.some THEN <<e.name \o <<":"," ">> \o run.raised.val>> ELSE <<>>

\* Where the loop goes after the turn for entry i of n: to the next entry or,
\* after the last one, to the report.  The except clause of the loop takes
\* every exception, so a call that raised changes nothing.
loop_control_stop_on_raise(i, n, run) ==
    IF i < n /\ ~run.raised.some THEN "next" ELSE "report"

loop_control(i, n, run) ==
    IF i < n THEN "next" ELSE "report"

\* What follows the last entry: the warning that joins the errors, if any.
final_report(errs) ==
    IF errs = <<>> THEN <<>>
    ELSE <<Ev("report", "Some layers failed", Join(errs, NL), <<>>, FALSE)>>

AddInit ==
    /\ add_pc = "idle"
    /\ add_type = "none"
    /\ add_crs = <<>>
    /\ add_fmt = <<>>
    /\ add_entries = <<>>
    /\ add_idx = 0
    /\ add_errors = <<>>
    /\ add_log = <<>>
    /\ add_replies = <<>>
    /\ project = <<>>

\* _on_add_selected up to its loop: the type, the dialog fields and the
\* checked items are read; without a checked item it says so and returns.
OnAddSelected ==
    /\ add_pc = "idle"
    /\ \E entry_type \in AddEntryTypes, crs_text \in CrsTexts, fmt_text \in FormatTexts :
          \E st \in {current_service_type(None, entry_type, Strip(AddUrlText))} :
              \E entries \in SeqUpTo(CheckedChoices(st), MaxChecked) :
                 /\ add_type' = st
                 /\ add_crs' = (IF Strip(crs_text) = <<>> THEN <<"E","P","S","G",":","4","3","2","6">>
                                ELSE Strip(crs_text))
                 /\ add_fmt' = (IF Strip(fmt_text) = <<>> THEN <<"i","m","a","g","e","/","j","p","e","g">>
                                ELSE Strip(fmt_text))
                 /\ add_entries' = entries
                 /\ IF entries = <<>>
                    THEN /\ add_pc' = "done"
                         /\ add_log' = Tag(<<Ev("report", "No selection",
                                                <<"P","l","e","a","s","e"," ","t","i","c","k"," ","a","t"," ","l","e","a","s","t"," ","o","n","e"," ","l","a","y","e","r",".">>,
                                                <<>>, FALSE)>>, 0)
                    ELSE /\ add_pc' = "loop"
                         /\ add_log' = <<>>
    /\ add_idx' = 0
    /\ add_errors' = <<>>
    /\ add_replies' = <<>>
    /\ UNCHANGED <<project, notAddVars>>

\* One turn of the loop of _on_add_selected: the builder is called for the
\* next entry; after the last entry the collected errors are reported.
AddEntry ==
    /\ add_pc = "loop"
    /\ add_idx < Len(add_entries)
    /\ \E reply \in BuilderReplies(add_type), k \in 1..(MaxCandidates + 1) :
       \E i \in {add_idx + 1} :
       \E e \in {add_entries[i]} :
       \E run \in {call_builder(add_type, e, add_crs, add_fmt, reply, k)} :
       \E errs \in {add_errors \o loop_errors(e, run)} :
       \E then \in {loop_control(i, Len(add_entries), run)} :
          /\ add_idx' = i
          /\ add_errors' = errs
          /\ add_replies' = Append(add_replies, reply)
          /\ project' = project \o Added(run.events)
          /\ add_log' = add_log
                        \o Tag(<<Ev("entry", "_on_add_selected", e.name, <<>>, TRUE)>>, i)
                        \o Tag(run.events, i)
                        \o (IF then = "report" THEN Tag(final_report(errs), 0)
                            ELSE <<>>)
          /\ add_pc' = IF then = "report" THEN "done" ELSE "loop"
    /\ UNCHANGED <<add_type, add_crs, add_fmt, add_entries, notAddVars>>

AddNext ==
    \/ OnAddSelected
    \/ AddEntry

InitAdd ==
    /\ AddInit
    /\ UrlIdle /\ ParseIdle /\ MatrixIdle /\ FormatIdle /\ ArcgisIdle /\ ListIdle
    /\ ResolveIdle /\ TypeIdle /\ GetIdle /\ DialogIdle

SpecAdd == InitAdd /\ [][AddNext]_vars

-----------------------------------------------------------------------------
(* Claims about "add selected" *)

\* The events of one kind in the log of the action.
LogOf(kind) == SelectSeq(add_log, LAMBDA e : e.ev = kind)

\* The events of one kind that belong to entry i.
LogOfEntry(kind, i) == SelectSeq(add_log, LAMBDA e : e.ev = kind /\ e.i = i)

\* The service types the action has a builder for.
BuilderTypes == {"WMS", "WMTS", "REST"}

\* The events of a kind are one per entry taken so far, in list order, each
\* for the name of its entry.
OnePerEntryInOrder(kind) ==
    LET evs == LogOf(kind)
    IN  /\ Len(evs) = add_idx
        /\ \A j \in 1..add_idx : evs[j].i = j /\ evs[j].text = add_entries[j].name

\* Entry i was not added: its builder reported a failure, or the call raised.
EntryFailed(i) == i \in 1..add_idx /\ LogOfEntry("add", i) = <<>>

\* C14: in one "add selected" action every checked layer is attempted
\* exactly once and in list order, whatever became of the layers before it:
\* the loop takes the entries one by one, calls the builder once for each,
\* and ends only after the last entry.
C14_EveryCheckedAttemptedOnce ==
    /\ OnePerEntryInOrder("entry")
    /\ add_type \in BuilderTypes => OnePerEntryInOrder("call")
    /\ add_pc = "loop" => add_idx < Len(add_entries)
    /\ add_pc = "done" => add_idx = Len(add_entries)

\* Two layers were checked, the call for the first raised an exception the
\* builder does not handle, and the second was attempted and added.
C14_Witness ==
    /\ add_pc = "done"
    /\ Len(add_entries) = 2
    /\ add_errors # <<>>
    /\ EntryFailed(1)
    /\ LogOfEntry("call", 2) # <<>>
    /\ LogOfEntry("add", 2) # <<>>

\* The entries taken so far that were not added.
FailedEntries == {i \in 1..add_idx : EntryFailed(i)}

\* C15: the failures of one "add selected" action are accumulated per layer
\* and surfaced together: no dialog is shown for a single layer while the
\* loop runs, and when at least one layer failed there is exactly one report
\* after the loop, with one collected error per failed layer.
C15_FailuresReportedOnceAfterLoop ==
    /\ \A j \in 1..Len(add_log) : add_log[j].ev = "report" => add_log[j].i = 0
    /\ (add_pc = "done" /\ FailedEntries # {}) =>
           /\ Len(LogOfEntry("report", 0)) = 1
           /\ Len(add_errors) = Cardinality(FailedEntries)

\* The capability URL add_wmts_layer asks for entry i.
WmtsCapsUrlOf(i) == Wmts_build_caps_url(Strip(add_entries[i].base_url))

\* The base of the capability document entry i received: that of the URL
\* the document came from.
CapsBaseOf(i) ==
    Wmts_normalize_service_base(
        IF add_replies[i].final.some THEN add_replies[i].final.val
        ELSE WmtsCapsUrlOf(i))

\* The base of the GetTile URL that document advertises ("" when none).
TileBaseOf(i) == Wmts_normalize_service_base(Strip(add_replies[i].doc.gettile))

\* Descriptor text is built from base: its url parameter, the last, is base.
BuiltFrom(text, base) == EndsWith(text, <<"&","u","r","l","=">> \o base)

\* C16: add_wmts_layer probes the sink with the capability-document base
\* first and with the advertised GetTile base second; it adds the layer of
\* the first candidate the sink accepts, probes nothing after an
\* acceptance, and adds at most one layer per call.
C16_WmtsProbesInOrder ==
    \A i \in 1..add_idx :
        (add_type = "WMTS" /\ add_replies[i].kind = "doc") =>
            LET probes == LogOfEntry("probe", i)
                adds == LogOfEntry("add", i)
            IN  /\ Len(probes) <= 2
                /\ Len(adds) <= 1
                /\ probes # <<>> =>
                       /\ probes[1].base = CapsBaseOf(i)
                       /\ BuiltFrom(probes[1].text, CapsBaseOf(i))
                /\ Len(probes) = 2 =>
                       /\ ~probes[1].ok
                       /\ probes[2].base = TileBaseOf(i)
                       /\ BuiltFrom(probes[2].text, TileBaseOf(i))
                /\ adds # <<>> <=> (probes # <<>> /\ probes[Len(probes)].ok)
                /\ adds # <<>> => adds[1].text = probes[Len(probes)].text
                /\ (probes # <<>> /\ ~probes[Len(probes)].ok) =>
                       Len(probes) = Len(wmts_base_candidates(CapsBaseOf(i), TileBaseOf(i)))

\* A WMTS layer whose capability base the sink rejected and whose GetTile
\* base, a different URL, it accepted: the layer of the second descriptor is
\* in the project.
C16_Witness ==
    /\ add_type = "WMTS"
    /\ add_idx >= 1
    /\ add_replies[1].kind = "doc"
    /\ Len(LogOfEntry("probe", 1)) = 2
    /\ LogOfEntry("probe", 1)[2].ok
    /\ CapsBaseOf(1) # TileBaseOf(1)
    /\ LogOfEntry("add", 1) # <<>>
    /\ \E j \in 1..Len(project) : BuiltFrom(project[j].uri, TileBaseOf(1))

\* The text names the attempt with base: the base URL stands in it.
NamesAttempt(text, base) == Contains(text, base)

\* Both candidates of the WMTS entry i were probed and rejected.
WmtsBothRejected(i) ==
    /\ add_type = "WMTS"
    /\ i \in 1..add_idx
    /\ add_replies[i].kind = "doc"
    /\ Len(LogOfEntry("probe", i)) = 2
    /\ \A j \in 1..2 : ~LogOfEntry("probe", i)[j].ok

\* C17: when add_wmts_layer has two base-URL candidates and the sink rejects
\* both, the error it reports names both attempts as failed: the one with
\* the capability-document base and the one with the GetTile base.
C17_WmtsErrorNamesBothAttempts ==
    \A i \in 1..add_idx :
        WmtsBothRejected(i) =>
            \E j \in 1..Len(add_log) :
                /\ add_log[j].ev = "report"
                /\ NamesAttempt(add_log[j].text, CapsBaseOf(i))
                /\ NamesAttempt(add_log[j].text, TileBaseOf(i))

\* The sink was asked about the descriptors of entry i and accepted none.
NoneAccepted(i) ==
    /\ i \in 1..add_idx
    /\ LogOfEntry("probe", i) # <<>>
    /\ \A j \in 1..Len(LogOfEntry("probe", i)) : ~LogOfEntry("probe", i)[j].ok

\* C18: for each builder (WMS, WMTS, REST for MAP and for FEATURE), when the
\* sink accepts none of the candidate descriptors no layer is added and an
\* error is reported whose text names both the service URL and the layer.
C18_RejectedNamesUrlAndLayer ==
    \A i \in 1..add_idx :
        NoneAccepted(i) =>
            /\ LogOfEntry("add", i) = <<>>
            /\ \E j \in 1..Len(add_log) :
                  /\ add_log[j].ev = "report"
                  /\ Contains(add_log[j].text, clean_base_url(add_entries[i].base_url))
                  /\ Contains(add_log[j].text, add_entries[i].name)

-----------------------------------------------------------------------------
(* Claims about the tree across listing actions *)

\* A listing action has run to its end.
ListingDone == list_pc = "idle" /\ listings >= 1

\* The names in column 0 of the tree.
TreeNames == [i \in 1..Len(tree) |-> tree[i].text0]

\* The names of the layers a capability document or service info of the
\* given protocol holds, in its order.
DocLayerNames(st, reply) ==
    CASE st = "WMS" ->
           LET layers == parse_layers_from_caps(reply.doc)
           IN  [i \in 1..Len(layers) |-> layers[i].name]
      [] st = "WMTS" ->
           LET layers == wmts_parse_layers(reply.doc.layers,
                                           parse_tile_matrix_sets(reply.doc.tms))
           IN  [i \in 1..Len(layers) |-> layers[i].identifier]
      [] st = "REST" ->
           [i \in 1..Len(reply.info.layers) |->
               IF reply.info.layers[i].name.some THEN reply.info.layers[i].name.val
               ELSE <<"L","a","y","e","r"," ">> \o IntStr(reply.info.layers[i].id)]

\* C19: after any sequence of listing actions, when a listing action has
\* completed the tree holds exactly the layers of that action's successful
\* capability document, and no layer at all when that action failed (it
\* reported an error); no item of an earlier listing survives.
C19_TreeHoldsLastListingOnly ==
    ListingDone =>
        /\ reports # <<>> => tree = <<>>
        /\ reports = <<>> =>
              /\ attempts # <<>>
              /\ attempts[Len(attempts)].kind \in {"doc", "info"}
              /\ TreeNames = DocLayerNames(service_type, attempts[Len(attempts)])

-----------------------------------------------------------------------------
(* Blocking fetch: net_utils._blocking_get and http_get_bytes, with the Qt
   event loop between the request and its reply *)

\* net_utils._MAX_REDIRECTS
MAX_REDIRECTS == 5

\* Largest number of redirects a server answers with before its final answer.
MaxServedRedirects == 7

\* What a server does: it answers the first `redirects` requests of a fetch
\* with a redirect and every later one with `final`: a body, an error, or
\* again a redirect (an endless chain).
Servers == [redirects : 0..MaxServedRedirects, final : {"body", "error", "redirect"}]

\* The answer to the n-th request of a fetch.
Answer(server, n) == IF n <= server.redirects THEN "redirect" ELSE server.final

FetchUrls == {<<"h","t","t","p",":","/","/","h","/","o","w","s">>, <<"h","t","t","p","s",":","/","/","h",".","x","/","a","/","w","m","t","s","/">>}

\* The URL of the n-th request of a fetch of u: u, then the redirect targets.
RequestUrl(u, n) == IF n = 1 THEN u ELSE u \o <<"/","h","o","p">> \o IntStr(n - 1)

\* A variant that connects the finished signal of every reply to loop.quit.
finished_connected_every_hop(n) == TRUE

\* The finished signal of the reply to the n-th request is connected to
\* loop.quit: only that of the first reply is.
finished_connected(n) == n = 1

\* _blocking_get once the loop has quit on the finished reply n with the
\* timer still active, `redirects` hops having been followed: what it does
\* next ("hop": a further request) or returns.
after_reply(server, n, redirects) ==
    LET answer == Answer(server, n)
    IN  IF answer = "error" THEN [do |-> "return", data |-> FALSE, err |-> <<"C","o","n","n","e","c","t","i","o","n"," ","r","e","f","u","s","e","d">>]
        ELSE IF answer = "redirect" /\ redirects < MAX_REDIRECTS
        THEN [do |-> "hop", data |-> FALSE, err |-> <<>>]
        ELSE [do |-> "return", data |-> TRUE, err |-> <<>>]

\* _blocking_get when the timer has fired while it waited for reply n.
timeout_error(n) ==
    IF n = 1 THEN <<"T","i","m","e","o","u","t"," ","a","f","t","e","r"," ","1","5","0","0","0"," ","m","s">> ELSE <<"T","i","m","e","o","u","t"," ","a","f","t","e","r"," ","1","5","0","0","0"," ","m","s"," ","(","r","e","d","i","r","e","c","t",")">>

\* What http_get_bytes makes of the return of _blocking_get: the body of
\* reply n and its URL, or a RuntimeError.
Returned(u, server, n) ==
    [returned |-> TRUE, raised |-> FALSE, n |-> n, kind |-> Answer(server, n),
     text |-> RequestUrl(u, n)]

RaisedError(u, err) ==
    [returned |-> FALSE, raised |-> TRUE, n |-> 0, kind |-> "none",
     text |-> <<"N","e","t","w","o","r","k"," ","e","r","r","o","r"," ","f","o","r"," ">> \o u \o <<":"," ">> \o err]

GetInit ==
    /\ get_pc = "idle"
    /\ get_url = <<>>
    /\ get_server = [redirects |-> 0, final |-> "none"]
    /\ get_requests = 0
    /\ get_redirects = 0
    /\ get_reply = [n |-> 0, finished |-> FALSE, connected |-> FALSE]
    /\ timer_active = FALSE
    /\ get_result = [returned |-> FALSE, raised |-> FALSE, n |-> 0, kind |-> "none",
                     text |-> <<>>]

\* http_get_bytes(u) up to the first loop.exec_(): the request is issued and
\* the timer started.
HttpGetBytes ==
    /\ get_pc = "idle"
    /\ \E u \in FetchUrls, server \in Servers :
          /\ get_url' = u
          /\ get_server' = server
    /\ get_requests' = 1
    /\ get_redirects' = 0
    /\ get_reply' = [n |-> 1, finished |-> FALSE, connected |-> finished_connected(1)]
    /\ timer_active' = TRUE
    /\ get_pc' = "wait"
    /\ UNCHANGED <<get_result, notGetVars>>

\* The current reply finishes.  If its finished signal is connected the loop
\* quits with the timer active and _blocking_get runs on to its next
\* loop.exec_() or to its return; if not, the loop keeps waiting.
ReplyFinished ==
    /\ get_pc = "wait"
    /\ ~get_reply.finished
    /\ IF ~get_reply.connected
       THEN /\ get_reply' = [get_reply EXCEPT !.finished = TRUE]
            /\ UNCHANGED <<get_pc, get_requests, get_redirects, timer_active, get_result>>
       ELSE LET n == get_reply.n
                redirects == IF n = 1 THEN 0 ELSE get_redirects + 1
                then == after_reply(get_server, n, redirects)
            IN  /\ get_redirects' = redirects
                /\ IF then.do = "hop"
                   THEN /\ get_requests' = get_requests + 1
                        /\ get_reply' = [n |-> n + 1, finished |-> FALSE,
                                         connected |-> finished_connected(n + 1)]
                        /\ timer_active' = TRUE
                        /\ UNCHANGED <<get_pc, get_result>>
                   ELSE /\ get_reply' = [get_reply EXCEPT !.finished = TRUE]
                        /\ timer_active' = FALSE
                        /\ get_pc' = "done"
                        /\ get_result' = IF then.data
                                         THEN Returned(get_url, get_server, n)
                                         ELSE RaisedError(get_url, then.err)
                        /\ UNCHANGED get_requests
    /\ UNCHANGED <<get_url, get_server, notGetVars>>

\* The timer fires while the loop waits: the loop quits with the timer
\* inactive, the reply is aborted and the timeout is returned.
TimerFires ==
    /\ get_pc = "wait"
    /\ timer_active
    /\ timer_active' = FALSE
    /\ get_pc' = "done"
    /\ get_result' = RaisedError(get_url, timeout_error(get_reply.n))
    /\ UNCHANGED <<get_url, get_server, get_requests, get_redirects, get_reply, notGetVars>>

GetNext ==
    \/ HttpGetBytes
    \/ ReplyFinished
    \/ TimerFires

InitGet ==
    /\ GetInit
    /\ UrlIdle /\ ParseIdle /\ MatrixIdle /\ FormatIdle /\ ArcgisIdle /\ ListIdle
    /\ ResolveIdle /\ TypeIdle /\ AddIdle /\ DialogIdle

\* The single-shot timer fires unless the loop has quit before.
SpecGet == InitGet /\ [][GetNext]_vars /\ WF_vars(TimerFires)

\* The fetch follows at most MAX_REDIRECTS hops, and the body it returns is
\* never that of a reply that is a redirect.
BoundedHopsNoRedirectBody ==
    /\ get_redirects <= MAX_REDIRECTS
    /\ get_requests <= MAX_REDIRECTS + 1
    /\ get_result.returned => get_result.kind # "redirect"

-----------------------------------------------------------------------------
(* Claims about the hops of the blocking fetch (specification SpecGet) *)

\* The fetch has ended with the timeout error of _blocking_get.
TimedOut == get_result.raised /\ Contains(get_result.text, <<"T","i","m","e","o","u","t"," ","a","f","t","e","r">>)

-----------------------------------------------------------------------------
(* Claims about the resolution the builders do before they probe *)

\* The matrix set and the format _on_add_selected hands to add_wmts_layer
\* for entry i: those of the item's payload, else none and the format of the
\* dialog.
WmtsMatrixSetArg(i) ==
    IF add_entries[i].payload.some
       /\ Truthy(add_entries[i].payload.val.default_matrix_set)
    THEN add_entries[i].payload.val.default_matrix_set ELSE None

WmtsFormatArg(i) ==
    IF add_entries[i].payload.some /\ Truthy(add_entries[i].payload.val.default_format)
    THEN add_entries[i].payload.val.default_format ELSE Some(add_fmt)

\* The layer of the capability document entry i received that
\* add_wmts_layer matches with the entry's name.
WmtsMatchOf(i) ==
    wmts_match(wmts_parse_layers(add_replies[i].doc.layers,
                                 parse_tile_matrix_sets(add_replies[i].doc.tms)),
               add_entries[i].name)

\* The matched layer advertises the matrix set, the format.
AdvertisesMatrixSet(match, id) ==
    \E j \in 1..Len(match.matrix_sets) : match.matrix_sets[j].id = id

AdvertisesFormat(match, f) ==
    \E j \in 1..Len(match.formats) : match.formats[j] = f

\* What add_wmts_layer was explicitly given for entry i and the matched
\* layer does not advertise.
WmtsMissing(i) ==
    IF ~(add_type = "WMTS" /\ i \in 1..add_idx /\ add_replies[i].kind = "doc")
    THEN {}
    ELSE IF ~WmtsMatchOf(i).some THEN {}
    ELSE (IF WmtsMatrixSetArg(i).some
             /\ ~AdvertisesMatrixSet(WmtsMatchOf(i).val, WmtsMatrixSetArg(i).val)
          THEN {WmtsMatrixSetArg(i).val} ELSE {})
         \cup
         (IF ~AdvertisesFormat(WmtsMatchOf(i).val, WmtsFormatArg(i).val)
          THEN {WmtsFormatArg(i).val} ELSE {})

\* C22: when add_wmts_layer is given an explicit matrix set or image format
\* that the matched layer's capability entry does not advertise, it reports
\* an error naming the missing identifier and neither probes the rendering
\* sink nor adds a layer.
C22_UnadvertisedChoiceReported ==
    \A i \in 1..add_idx :
        WmtsMissing(i) # {} =>
            /\ LogOfEntry("probe", i) = <<>>
            /\ LogOfEntry("add", i) = <<>>
            /\ \E j \in 1..Len(add_log) :
                  /\ add_log[j].ev = "report"
                  /\ add_log[j].i = i
                  /\ \E id \in WmtsMissing(i) : Contains(add_log[j].text, id)


\* The WMTS entry i is resolved against the capability document it
\* received: the document arrived, a layer matches, a matrix set and a
\* format are settled (the style always is).
WmtsResolvedInCode(i) ==
    /\ add_replies[i].kind = "doc"
    /\ WmtsMatchOf(i).some
    /\ Truthy(wmts_choice(WmtsMatchOf(i).val, WmtsMatrixSetArg(i), WmtsFormatArg(i)).ms)
    /\ Truthy(wmts_choice(WmtsMatchOf(i).val, WmtsMatrixSetArg(i), WmtsFormatArg(i)).fmt)

\* The REST entry i is resolved against the service info it received: the
\* info arrived, the service kind is known and the layer is found.
RestResolved(i) ==
    /\ add_replies[i].kind = "info"
    /\ rest_svc_type(add_replies[i].info, clean_base_url(add_entries[i].base_url))
           \in {"MAP", "FEATURE"}
    /\ resolve_layer(add_replies[i].info.layers, add_entries[i].name).ok

\* Entry i is resolved as the builder of the service type resolves it;
\* add_wms_layer has no resolution step of its own.
ResolvedInCode(i) ==
    CASE add_type = "WMS" -> TRUE
      [] add_type = "WMTS" -> WmtsResolvedInCode(i)
      [] add_type = "REST" -> RestResolved(i)
      [] OTHER -> FALSE

\* A descriptor was constructed for entry i: the sink was probed with it, or
\* a layer was added.
DescriptorBuilt(i) == LogOfEntry("probe", i) # <<>> \/ LogOfEntry("add", i) # <<>>

\* In every add call a descriptor is constructed only after the resolution
\* steps of the builder have succeeded.
BuiltOnlyWhenResolvedInCode == \A i \in 1..add_idx : DescriptorBuilt(i) => ResolvedInCode(i)

\* C23: in every add call the sink is probed with a descriptor only after
\* the layer, and for WMTS the matrix set, the format and the style, has
\* been resolved against a capability document: when the layer resolution
\* fails, when the service kind is unknown, or when a WMTS matrix set or
\* format is not one the document advertises for the layer, no descriptor
\* is constructed and nothing is added to the project.
C23_DescriptorOnlyAfterResolve ==
    \A i \in 1..add_idx :
        DescriptorBuilt(i) => (ResolvedInCode(i) /\ WmtsMissing(i) = {})


-----------------------------------------------------------------------------
(* Claims about the layers the WMS parser surfaces (specification SpecParse) *)

\* The Layer element the walk of _parse_layers_from_caps starts at (0: the
\* Capability element has no Layer child).
RootLayer(doc) == IF LayerChildren(doc, 0) = <<>> THEN 0 ELSE LayerChildren(doc, 0)[1]

\* The Layer elements of the walk: the root Layer and the Layer elements
\* below it.
WalkedLayers(doc) ==
    {e \in 1..Len(doc.parent) : RootLayer(doc) \in AncestorsOrSelf(doc, e)}

\* The Layer element e has a Name child with non-empty trimmed text.
HasName(doc, e) == doc.name[e].some /\ Strip(doc.name[e].val) # <<>>

\* The entries of the returned list built from the Layer element e.
EntriesOf(e) == SelectSeq(wms_layers.val, LAMBDA L : L.elem = e)

\* The Layer element e is surfaced: the returned list has an entry built
\* from it.
Surfaced(e) == EntriesOf(e) # <<>>

\* The Layer elements of the walk in the order the depth-first walk meets
\* them: an element, then the subtrees of its children in document order.
RECURSIVE DocumentOrder(_, _)
RECURSIVE DocumentOrderAll(_, _)
DocumentOrder(doc, e) == <<e>> \o DocumentOrderAll(doc, LayerChildren(doc, e))

DocumentOrderAll(doc, children) ==
    IF children = <<>> THEN <<>>
    ELSE DocumentOrder(doc, Head(children)) \o DocumentOrderAll(doc, Tail(children))

\* The place of the walked Layer element e in that order.
PlaceOf(doc, e) ==
    CHOOSE k \in 1..Len(DocumentOrder(doc, RootLayer(doc))) :
        DocumentOrder(doc, RootLayer(doc))[k] = e

\* The walk meets a Layer element with the name of e before it meets e.
NameMetBefore(doc, e) ==
    \E f \in WalkedLayers(doc) :
        /\ HasName(doc, f)
        /\ Strip(doc.name[f].val) = Strip(doc.name[e].val)
        /\ PlaceOf(doc, f) < PlaceOf(doc, e)

\* The unnamed Layer elements that contain the Layer element e.
UnnamedContainers(doc, e) ==
    {a \in AncestorsOrSelf(doc, e) \ {e} : ~HasName(doc, a)}

\* The Layer elements built into entries carry the codes declared on the
\* unnamed containers above them.
InheritsFromContainers(doc) ==
    \A e \in WalkedLayers(doc) :
        \A j \in 1..Len(EntriesOf(e)) :
            CodesDeclaredOn(doc, UnnamedContainers(doc, e))
                \subseteq Range(EntriesOf(e)[j].crs_list)

\* C24 as stated: a Layer element is surfaced if and only if it has a Name
\* child with non-empty trimmed text; an unnamed container is never listed,
\* its named descendants are listed and inherit the codes declared on it.
C24_SurfacedIffNamedAsStated ==
    wms_layers.some =>
        /\ \A e \in WalkedLayers(wms_doc) : Surfaced(e) <=> HasName(wms_doc, e)
        /\ InheritsFromContainers(wms_doc)

\* C24: a Layer element is surfaced if and only if it has a Name child with
\* non-empty trimmed text and the walk has met no Layer element of the same
\* name before it; an unnamed container is never listed, and the entries of
\* its named descendants carry the codes declared on the container.
C24_SurfacedIffNamedAndFirst ==
    wms_layers.some =>
        /\ \A e \in WalkedLayers(wms_doc) :
              Surfaced(e) <=> (HasName(wms_doc, e) /\ ~NameMetBefore(wms_doc, e))
        /\ \A i \in 1..Len(wms_layers.val) :
              /\ wms_layers.val[i].elem \in WalkedLayers(wms_doc)
              /\ wms_layers.val[i].name = Strip(wms_doc.name[wms_layers.val[i].elem].val)
        /\ InheritsFromContainers(wms_doc)

\* An unnamed container that declares a code holds, below a second unnamed
\* Layer, a named Layer that declares nothing: the container is not listed,
\* the named Layer is, with the container's code.
C24_Witness ==
    /\ wms_layers.some
    /\ Len(wms_doc.parent) = 3
    /\ wms_doc.parent = <<0, 1, 2>>
    /\ ~HasName(wms_doc, 1) /\ ~HasName(wms_doc, 2) /\ HasName(wms_doc, 3)
    /\ wms_doc.crs[1] = << <<"E","P","S","G",":","4","3","2","6">> >>
    /\ wms_doc.crs[2] = <<>> /\ wms_doc.srs[2] = <<>>
    /\ wms_doc.crs[3] = <<>> /\ wms_doc.srs[3] = <<>>
    /\ ~Surfaced(1) /\ ~Surfaced(2) /\ Surfaced(3)
    /\ EntriesOf(3)[1].crs_list = << <<"E","P","S","G",":","4","3","2","6">> >>


\* The tokens declared, as CRS or SRS, on the Layer elements in E.
TokensDeclaredOn(doc, E) == UNION {Range(TokensOf(doc.crs[a] \o doc.srs[a])) : a \in E}

\* The ':'-separated fields of a URN-style token, "::" counting as one ':'.
UrnFields(t) == Split(Replace(Strip(t), <<":",":">>, <<":">>), <<":">>)

\* The trailing numeric code of a URN-style token: its last field that is a
\* number (no code when it has none).
TrailingCode(t) ==
    LET numeric == {k \in 1..Len(UrnFields(t)) : IsDigit(UrnFields(t)[k])}
    IN  IF numeric = {} THEN {}
        ELSE {UrnFields(t)[CHOOSE k \in numeric : \A j \in numeric : j <= k]}

\* The token has the EPSG: prefix, in any letter case.
HasEpsgPrefix(t) == StartsWith(Upper(Strip(t)), <<"E","P","S","G",":">>)

\* What the rule makes of one declared token: the token upper-cased when it
\* has the EPSG: prefix, EPSG:<trailing numeric code> when it is URN-style
\* and contains EPSG, and nothing otherwise.
CanonicalOf(t) ==
    IF HasEpsgPrefix(t) THEN {Upper(Strip(t))}
    ELSE IF Contains(Upper(t), <<"E","P","S","G">>) THEN { <<"E","P","S","G",":">> \o c : c \in TrailingCode(t)}
    ELSE {}

\* The token is EPSG: followed by a numeric code.
IsNumericEpsg(t) == StartsWith(t, <<"E","P","S","G",":">>) /\ IsDigit(SubSeq(t, 6, Len(t)))

\* Every crs_list is what the rule makes of the tokens declared on the
\* layer's element and on its ancestors.
CrsListsFollowRule ==
    \A i \in 1..Len(wms_layers.val) :
        Range(wms_layers.val[i].crs_list) =
            UNION {CanonicalOf(t) :
                   t \in TokensDeclaredOn(wms_doc,
                                          AncestorsOrSelf(wms_doc, wms_layers.val[i].elem))}

\* C25 as stated: every token of every crs_list is EPSG: followed by a
\* numeric code, and the lists follow the rule.
C25_CrsTokensNumericAsStated ==
    wms_layers.some =>
        /\ \A i \in 1..Len(wms_layers.val) :
              \A t \in Range(wms_layers.val[i].crs_list) : IsNumericEpsg(t)
        /\ CrsListsFollowRule

\* C25: every token of every crs_list starts with EPSG: and is in upper
\* case, and is EPSG: followed by a numeric code when it came from a token
\* without the EPSG: prefix; a declared token with the prefix is kept
\* upper-cased whatever follows the prefix, a URN-style token containing
\* EPSG is replaced by EPSG:<trailing numeric code>, and every other token
\* is discarded.
C25_CrsTokensCanonical ==
    wms_layers.some =>
        /\ \A i \in 1..Len(wms_layers.val) :
              \A t \in Range(wms_layers.val[i].crs_list) :
                  /\ StartsWith(t, <<"E","P","S","G",":">>)
                  /\ t = Upper(t)
                  /\ IsNumericEpsg(t)
                     \/ \E d \in TokensDeclaredOn(
                                     wms_doc,
                                     AncestorsOrSelf(wms_doc, wms_layers.val[i].elem)) :
                           HasEpsgPrefix(d) /\ Upper(Strip(d)) = t
        /\ CrsListsFollowRule

\* A layer declares a lower-case epsg:25832, a CRS:84 and an epsg:x in one
\* SRS element and below a container a URN-style code: its list holds
\* EPSG:25832 and EPSG:X and no CRS:84.
C25_Witness ==
    /\ wms_layers.some
    /\ \E i \in 1..Len(wms_layers.val) :
          /\ wms_doc.srs[wms_layers.val[i].elem] # <<>>
          /\ wms_doc.parent[wms_layers.val[i].elem] # 0
          /\ wms_doc.crs[wms_doc.parent[wms_layers.val[i].elem]]
                 = << <<"E","P","S","G",":","3","8","5","7">>, <<"u","r","n",":","o","g","c",":","d","e","f",":","c","r","s",":","E","P","S","G",":",":","2","5","8","3","2">> >>
          /\ wms_layers.val[i].crs_list
                 = << <<"E","P","S","G",":","2","5","8","3","2">>, <<"E","P","S","G",":","3","8","5","7">>, <<"E","P","S","G",":","4","3","2","6">>, <<"E","P","S","G",":","X">> >>


\* The title walk_layers stores for the Layer element e: the stripped text
\* of its Title child, or its name when it has no Title text.
TitleOfElement(doc, e) ==
    IF doc.title[e].some /\ doc.title[e].val # <<>> THEN Strip(doc.title[e].val)
    ELSE Strip(doc.name[e].val)

\* C26: the list _parse_layers_from_caps returns never holds two entries
\* with the same name; when several named Layer elements share a name, the
\* entry kept is that of the element the depth-first document-order walk
\* meets first, with that element's title and CRS list.
C26_UniqueNamesFirstKept ==
    wms_layers.some =>
        /\ \A i, j \in 1..Len(wms_layers.val) :
              wms_layers.val[i].name = wms_layers.val[j].name => i = j
        /\ \A i \in 1..Len(wms_layers.val) :
              LET L == wms_layers.val[i]
              IN  /\ L.elem \in WalkedLayers(wms_doc)
                  /\ HasName(wms_doc, L.elem)
                  /\ L.name = Strip(wms_doc.name[L.elem].val)
                  /\ ~NameMetBefore(wms_doc, L.elem)
                  /\ L.title = TitleOfElement(wms_doc, L.elem)
                  /\ Range(L.crs_list) =
                         CodesDeclaredOn(wms_doc, AncestorsOrSelf(wms_doc, L.elem))
        /\ \A e \in WalkedLayers(wms_doc) :
              HasName(wms_doc, e) =>
                  \E i \in 1..Len(wms_layers.val) :
                      wms_layers.val[i].name = Strip(wms_doc.name[e].val)

\* Two Layer elements below the root share the name B, the first written
\* with padding, and differ in title and declared codes: the one entry named
\* B is that of the first.
C26_Witness ==
    /\ wms_layers.some
    /\ wms_doc.parent = <<0, 1, 1>>
    /\ wms_doc.name[2] = Some( <<" ","B"," ">> )
    /\ wms_doc.name[3] = Some( <<" ","B"," ">> )
    /\ wms_doc.title[2].some
    /\ wms_doc.crs[2] = << <<"E","P","S","G",":","4","3","2","6">> >>
    /\ wms_doc.crs[3] = << <<"E","P","S","G",":","3","8","5","7">>, <<"u","r","n",":","o","g","c",":","d","e","f",":","c","r","s",":","E","P","S","G",":",":","2","5","8","3","2">> >>
    /\ wms_doc.crs[1] = <<>> /\ wms_doc.srs[1] = <<>>
    /\ \E i \in 1..Len(wms_layers.val) :
          /\ wms_layers.val[i].name = <<"B">>
          /\ wms_layers.val[i].elem = 2
          /\ wms_layers.val[i].title = <<"T","2">>
          /\ wms_layers.val[i].crs_list = << <<"E","P","S","G",":","4","3","2","6">> >>


-----------------------------------------------------------------------------
(* Claims about the candidates of add_rest_layer *)

\* The kind of service add_rest_layer takes entry i for.
RestKindOf(i) ==
    rest_svc_type(add_replies[i].info, clean_base_url(add_entries[i].base_url))

\* The service root and the layer id of the REST entry i.
RestRootOf(i) == strip_trailing_slash(clean_base_url(add_entries[i].base_url))

RestIdOf(i) == IntStr(resolve_layer(add_replies[i].info.layers, add_entries[i].name).id)

\* The export format add_rest_layer settles for the MapServer entry i.
RestFormatOf(i) ==
    prefer_arcgis_format(
        Some(add_fmt),
        parse_supported_formats(add_replies[i].info.supportedImageFormatTypes))

\* The MapServer candidates of entry i from the most to the least specific:
\* sublayer + format + url, sublayer + url, url only.
MapCandidatesOf(i) ==
    << <<"l","a","y","e","r","s","=","s","h","o","w",":">> \o RestIdOf(i) \o <<"&","f","o","r","m","a","t","=">> \o RestFormatOf(i)
           \o <<"&","u","r","l","=">> \o RestRootOf(i),
       <<"l","a","y","e","r","s","=","s","h","o","w",":">> \o RestIdOf(i) \o <<"&","u","r","l","=">> \o RestRootOf(i),
       <<"u","r","l","=">> \o RestRootOf(i) >>

\* The probes of entry i are the first of the candidates, in their order,
\* up to and including the first the sink accepts (all when it accepts
\* none), and the layer of the accepted candidate, and no other, is added
\* once.
ProbedInOrderUntilAccepted(i, candidates, provider) ==
    LET probes == LogOfEntry("probe", i)
        adds == LogOfEntry("add", i)
    IN  /\ Len(probes) \in 1..Len(candidates)
        /\ \A j \in 1..Len(probes) :
              /\ probes[j].text = candidates[j]
              /\ probes[j].who = provider
              /\ j < Len(probes) => ~probes[j].ok
        /\ Len(probes) < Len(candidates) => probes[Len(probes)].ok
        /\ IF probes[Len(probes)].ok
           THEN /\ Len(adds) = 1
                /\ adds[1].text = probes[Len(probes)].text
                /\ adds[1].who = provider
           ELSE adds = <<>>

\* add_rest_layer reached its candidates for entry i, a service of kind.
RestCandidatesReached(i, kind) ==
    /\ add_type = "REST"
    /\ i \in 1..add_idx
    /\ RestResolved(i)
    /\ RestKindOf(i) = kind

\* C27: for a MapServer/ImageServer add, add_rest_layer probes the sink
\* with the candidates in the order sublayer+format+url, sublayer+url, url
\* only; it stops at the first the sink accepts, adds exactly that layer
\* once, and probes no less specific candidate after an acceptance.
C27_MapCandidatesInOrder ==
    \A i \in 1..add_idx :
        RestCandidatesReached(i, "MAP") =>
            ProbedInOrderUntilAccepted(i, MapCandidatesOf(i), "arcgismapserver")

\* A MapServer layer whose most specific candidate the sink rejected and
\* whose second it accepted: two probes, and the layer without format
\* parameter is in the project.
C27_Witness ==
    /\ RestCandidatesReached(1, "MAP")
    /\ Len(LogOfEntry("probe", 1)) = 2
    /\ ~LogOfEntry("probe", 1)[1].ok
    /\ LogOfEntry("probe", 1)[2].ok
    /\ Contains(LogOfEntry("probe", 1)[1].text, <<"&","f","o","r","m","a","t","=","p","n","g","3","2","&">>)
    /\ \E j \in 1..Len(project) :
          project[j].uri = <<"l","a","y","e","r","s","=","s","h","o","w",":","0","&","u","r","l","=","h","t","t","p",":","/","/","h","/","r","e","s","t","/","s","e","r","v","i","c","e","s","/","o","/","M","a","p","S","e","r","v","e","r">>


-----------------------------------------------------------------------------
(* add_rest_layer called with an attribute filter *)

\* The filters add_rest_layer is called with: none, an empty one, two.
WhereChoices == {None, Some(<<>>), Some( <<"K","I","N","D"," ","="," ","1">> ), Some( <<"1"," ","="," ","0">> )}

\* The services and layers add_rest_layer is called for: those of the
\* checked items, a FeatureServer layer by its id and an ImageServer.
RestCallChoices ==
    CheckedChoices("REST")
    \cup {Entry( <<"2">> , <<"h","t","t","p",":","/","/","h","/","o","/","F","e","a","t","u","r","e","S","e","r","v","e","r">> , None),
          Entry( <<"r","o","a","d","s">> , <<"h","t","t","p",":","/","/","h","/","o","/","I","m","a","g","e","S","e","r","v","e","r","/">> , None)}

\* What setSubsetString does with a filter.
SubsetOutcomes == {"applied", "refused", "raised"}

\* The format add_rest_layer is called with.
RestFormatArgs == {None, Some( <<"p","n","g">> )}

\* One call of add_rest_layer(service_url, layer_identifier, fmt, where):
\* the log and the project hold what the call did, add_errors the exception
\* that left it.
AddRestLayer ==
    /\ add_pc = "idle"
    /\ \E e \in RestCallChoices, fmt \in RestFormatArgs, where \in WhereChoices,
          subset \in SubsetOutcomes, reply \in RestReplies,
          k \in 1..(MaxCandidates + 1) :
       \E run \in {add_rest_layer(e.base_url, e.name, fmt, where, subset, reply, k)} :
          /\ add_entries' = <<e>>
          /\ add_replies' = <<reply>>
          /\ add_fmt' = (IF fmt.some THEN fmt.val ELSE <<>>)
          /\ add_log' = Tag(run.events, 1)
          /\ project' = Added(run.events)
          /\ add_errors' = (IF run.raised.some THEN <<run.raised.val>> ELSE <<>>)
    /\ add_type' = "REST"
    /\ add_idx' = 1
    /\ add_pc' = "done"
    /\ UNCHANGED <<add_crs, notAddVars>>

RestAddNext == AddRestLayer

SpecRestAdd == InitAdd /\ [][RestAddNext]_vars

-----------------------------------------------------------------------------
(* Claims about the FeatureServer branch (specification SpecRestAdd) *)

\* The FeatureServer candidates of entry i: the layer URL in key-value
\* form, then the bare layer URL.
FeatureCandidatesOf(i) ==
    << <<"u","r","l","=">> \o RestRootOf(i) \o <<"/">> \o RestIdOf(i),
       RestRootOf(i) \o <<"/">> \o RestIdOf(i) >>

\* The filter of entry i was not applied: setSubsetString refused it or
\* raised.
FilterFailed(i) ==
    \E j \in 1..Len(LogOfEntry("filter", i)) : ~LogOfEntry("filter", i)[j].ok

\* C28: for a FeatureServer add, add_rest_layer probes url=<layer-url>
\* first and the bare layer URL second and adds the first layer the sink
\* accepts exactly once; when applying the optional attribute filter fails,
\* the layer is still added and no error is reported.
C28_FeatureCandidatesAndFilter ==
    \A i \in 1..add_idx :
        RestCandidatesReached(i, "FEATURE") =>
            /\ ProbedInOrderUntilAccepted(i, FeatureCandidatesOf(i), "arcgisfeatureserver")
            /\ Len(LogOfEntry("filter", i)) <= 1
            /\ LogOfEntry("filter", i) # <<>> => LogOfEntry("add", i) # <<>>
            /\ FilterFailed(i) =>
                  /\ Len(project) = 1
                  /\ LogOfEntry("report", i) = <<>>
                  /\ add_errors = <<>>

\* A FeatureServer layer whose key-value candidate the sink rejected and
\* whose bare URL it accepted, with a filter that could not be applied: the
\* layer of the bare URL is in the project and nothing is reported.
C28_Witness ==
    /\ RestCandidatesReached(1, "FEATURE")
    /\ Len(LogOfEntry("probe", 1)) = 2
    /\ LogOfEntry("probe", 1)[2].ok
    /\ FilterFailed(1)
    /\ project = <<[uri |-> <<"h","t","t","p",":","/","/","h","/","o","/","F","e","a","t","u","r","e","S","e","r","v","e","r","/","2">> ,
                    provider |-> "arcgisfeatureserver"]>>
    /\ LogOfEntry("report", 1) = <<>>


-----------------------------------------------------------------------------
(* The dialog in use: ui.py and the two button slots of main.py *)

\* The catalog entries the country and region boxes select: one of each
\* type catalog.py holds.
CatalogChoices ==
    {[type |-> T_WMS, url |-> <<"h","t","t","p",":","/","/","h","/","o","w","s","?","s","e","r","v","i","c","e","=","W","M","S","&","m","a","p","=","a">> ],
     [type |-> T_WMTS, url |-> <<"h","t","t","p","s",":","/","/","h",".","x","/","a","/","w","m","t","s","/">> ],
     [type |-> T_REST, url |-> <<"h","t","t","p",":","/","/","h","/","r","e","s","t","/","s","e","r","v","i","c","e","s","/","o","/","M","a","p","S","e","r","v","e","r">> ]}

\* The entry of the first country, which the constructor selects.
FirstEntry == [type |-> T_WMS, url |-> <<"h","t","t","p",":","/","/","h","/","o","w","s","?","s","e","r","v","i","c","e","=","W","M","S","&","m","a","p","=","a">> ]

\* The text a user types into urlEdit.
EditedUrls == { <<"h","t","t","p",":","/","/","h","/","o","/","F","e","a","t","u","r","e","S","e","r","v","e","r","/">> }

\* The variables of the components the dialog does not use.
notUiVars ==
    <<urlVars, parseVars, matrixVars, formatVars, arcgisVars, resolveVars, typeVars, getVars>>

\* EuropeOrthoDialog.__init__: the boxes select the first entry, whose URL
\* _on_region_changed writes into urlEdit; the tree is empty.
DialogInit ==
    /\ catalog_entry = FirstEntry
    /\ url_edit = FirstEntry.url
    /\ checked = {}

\* _current_service_type(url) of the plugin's dialog: EuropeOrthoDialog has
\* no serviceType, and its currentCatalogSelection names the entry of the
\* two boxes.
dialog_service_type(text) ==
    current_service_type(None, Some(catalog_entry.type), text)

\* _on_country_changed and _on_region_changed: the URL of the selected entry
\* is written into urlEdit.
RegionChanged ==
    /\ list_pc = "idle" /\ add_pc = "idle"
    /\ \E entry \in CatalogChoices :
          /\ entry # catalog_entry
          /\ catalog_entry' = entry
          /\ url_edit' = entry.url
    /\ UNCHANGED <<checked, listVars, addVars, notUiVars>>

\* The user types another URL.
UrlEdited ==
    /\ list_pc = "idle" /\ add_pc = "idle"
    /\ \E text \in EditedUrls :
          /\ text # url_edit
          /\ url_edit' = text
    /\ UNCHANGED <<catalog_entry, checked, listVars, addVars, notUiVars>>

\* The user ticks or unticks the box of a tree item.
ItemChecked ==
    /\ list_pc = "idle" /\ add_pc = "idle"
    /\ \E i \in 1..Len(tree) :
          /\ checked' = (IF i \in checked THEN checked \ {i} ELSE checked \cup {i})
          /\ Cardinality(checked') <= MaxChecked
    /\ UNCHANGED <<catalog_entry, url_edit, listVars, addVars, notUiVars>>

\* "List Layers" clicked: _on_list_layers up to the call of the load
\* function, with the URL and the type the dialog holds.  tree.clear()
\* takes the items and their check marks.
ListClicked ==
    /\ list_pc = "idle" /\ add_pc = "idle"
    /\ listings < MaxListings
    /\ \E text \in {Strip(url_edit)} :
       \E st \in {dialog_service_type(text)} :
          /\ url_text' = text
          /\ service_type' = st
          /\ list_pc' = CASE st = "WMS" -> "wms"
                          [] st = "WMTS" -> "wmts"
                          [] st = "REST" -> "rest"
                          [] OTHER -> "idle"
          /\ ver_idx' = IF st = "WMS" THEN 1 ELSE 0
          /\ reports' = IF st \in {"WMS", "WMTS", "REST"} THEN <<>>
                        ELSE <<[title |-> "Error", details |-> <<"unknown_type">>]>>
    /\ tree' = <<>>
    /\ checked' = {}
    /\ errors' = <<>>
    /\ fetches' = <<>>
    /\ attempts' = <<>>
    /\ listings' = listings + 1
    /\ UNCHANGED <<catalog_entry, url_edit, addVars, notUiVars>>

\* selected_items(): the indices of the checked items in the order of the
\* tree.
selected_items ==
    SelectSeq([i \in 1..Len(tree) |-> i], LAMBDA i : i \in checked)

\* it.data(0, Qt.UserRole + 1) as _on_add_selected takes it: the items of a
\* WMTS or REST listing hold a dict (that of a REST listing without the two
\* defaults), those of a WMS listing a list.
item_payload(item, listed_as) ==
    CASE listed_as = "WMTS" ->
           WmtsPayload(item.payload.default_matrix_set, item.payload.default_format)
      [] listed_as = "REST" -> WmtsPayload(None, None)
      [] OTHER -> None

\* (name, base_url, payload) of a checked item.
item_entry(item, listed_as, text) ==
    Entry(item.text0,
          IF item.base_url # <<>> THEN item.base_url ELSE text,
          item_payload(item, listed_as))

\* "Add Selected" clicked: _on_add_selected up to its loop, with the URL,
\* the type and the checked items the dialog holds.
AddClicked ==
    /\ list_pc = "idle" /\ add_pc = "idle"
    /\ \E text \in {Strip(url_edit)} :
       \E sel \in {selected_items} :
       \E entries \in {[j \in 1..Len(sel) |->
                           item_entry(tree[sel[j]], service_type, text)]} :
          /\ add_type' = dialog_service_type(text)
          /\ add_crs' = <<"E","P","S","G",":","4","3","2","6">>
          /\ add_fmt' = <<"i","m","a","g","e","/","j","p","e","g">>
          /\ add_entries' = entries
          /\ IF entries = <<>>
             THEN /\ add_pc' = "done"
                  /\ add_log' = Tag(<<Ev("report", "No selection",
                                         <<"P","l","e","a","s","e"," ","t","i","c","k"," ","a","t"," ","l","e","a","s","t"," ","o","n","e"," ","l","a","y","e","r",".">>,
                                         <<>>, FALSE)>>, 0)
             ELSE /\ add_pc' = "loop"
                  /\ add_log' = <<>>
    /\ add_idx' = 0
    /\ add_errors' = <<>>
    /\ add_replies' = <<>>
    /\ UNCHANGED <<project, listVars, dialogVars, notUiVars>>

\* What the fetch of a builder comes back with while the dialog is open: the
\* service that was listed answers as it answered the listing; asked in
\* another protocol, it has no document of that protocol to answer with.
AnswersAsListed(st) ==
    IF st = service_type /\ attempts # <<>> /\ st \in {"WMTS", "REST"}
    THEN {attempts[Len(attempts)]}
    ELSE {r \in BuilderReplies(st) : r.kind \notin {"doc", "info"}}

\* One turn of the loop of _on_add_selected, the service answering as above.
AddEntryAsListed ==
    /\ AddEntry
    /\ add_replies'[Len(add_replies')] \in AnswersAsListed(add_type)

UiNext ==
    \/ RegionChanged
    \/ UrlEdited
    \/ ItemChecked
    \/ ListClicked
    \/ WmsAttempt
    \/ LoadWmts
    \/ LoadRest
    \/ AddClicked
    \/ AddEntryAsListed

InitUi ==
    /\ ListInit /\ AddInit /\ DialogInit
    /\ UrlIdle /\ ParseIdle /\ MatrixIdle /\ FormatIdle /\ ArcgisIdle
    /\ ResolveIdle /\ TypeIdle /\ GetIdle

SpecUi == InitUi /\ [][UiNext]_vars

-----------------------------------------------------------------------------
(* Claims about the dialog in use (specification SpecUi) *)

\* The add function of a protocol.
AddFunctionOf(protocol) ==
    CASE protocol = "WMS" -> "add_wms_layer"
      [] protocol = "WMTS" -> "add_wmts_layer"
      [] protocol = "REST" -> "add_rest_layer"
      [] OTHER -> "none"

\* C29: in every sequence of UI actions each checked item is added through
\* the builder of the protocol under which it was listed: the items of the
\* tree come from the last listing, of type service_type, and every call
\* "add selected" makes for them is a call of the add function of that type.
C29_AddedByListedProtocol ==
    \A j \in 1..Len(LogOf("call")) :
        LogOf("call")[j].who = AddFunctionOf(service_type)

\* The tree item entry i of the running "add selected" was made of.
ItemOfEntry(i) == tree[selected_items[i]]

\* The descriptors add_rest_layer probes for the layer whose id the payload
\* of the item of entry i stores.
StoredIdCandidates(i) ==
    rest_candidates(RestKindOf(i), RestRootOf(i), IntStr(ItemOfEntry(i).payload.id),
                    IF RestKindOf(i) = "MAP" THEN RestFormatOf(i) ELSE <<>>).uris

\* C30: for every ArcGIS REST listing and every checked item of it, the
\* layer "add selected" resolves and adds has the id stored in the item's
\* payload: what it adds for the item is one of the descriptors of the layer
\* with that id.
C30_AddedLayerHasStoredId ==
    (service_type = "REST" /\ add_type = "REST") =>
        \A i \in 1..add_idx :
            \A j \in 1..Len(LogOfEntry("add", i)) :
                \E c \in 1..Len(StoredIdCandidates(i)) :
                    LogOfEntry("add", i)[j].text = StoredIdCandidates(i)[c]
====
